---- MODULE Spec2Model ----
(***************************************************************************)
(* Model of the SolnAI prompt-engineering tools.                           *)
(*                                                                         *)
(* prompt-validator.js scores a markdown document against the CRITERIA     *)
(* table: every criterion of the four categories (structure, technical,    *)
(* validation, aiCompatibility) gets a pass/fail flag and a score, the     *)
(* scores are summed per category and over all categories, and the         *)
(* overall percentage selects a recommendation label.                      *)
(*                                                                         *)
(* Numbers.  The JavaScript scores are fractions (weight / 2,              *)
(* weight * matches / minCount, weight * (1 - excess / maxLength),         *)
(* weight * percentage / 100), held as IEEE-754 doubles.  The model keeps  *)
(* every score twice: as the double the program computes, each operation   *)
(* rounded to the nearest double, and as the exact value of the same       *)
(* expression, an integer count of 1/Unit.  The percentages are            *)
(* Math.round of the doubles, as in the program.                           *)
(*                                                                         *)
(* Documents.  A document is a set of lines taken from a vocabulary of     *)
(* concrete markdown lines, a number of checklist lines and a number of    *)
(* trailing filler characters.  The number of matches of each regular      *)
(* expression of CRITERIA in such a document is the sum of its matches in  *)
(* the lines (no pattern matches across two of these lines).               *)
(***************************************************************************)
EXTENDS Integers, Sequences, FiniteSets, TLC

VARIABLES
    file,       \* what is on disk under the path given to validatePrompt
    report,     \* what validatePrompt returned for it (NULL before the call)
    pc,         \* "validate" before the call of validatePrompt, "done" after
    \* A run of prompt-validator.js (main)
    hasArgs,        \* process.argv holds a file pattern
    files,          \* what glob.sync returns: the files the pattern matches,
                    \* in the order it gives them,
                    \* each [path, content], content as for file
    outputDir,      \* "present", "absent", or "uncreatable" (mkdirSync throws)
    unwritable,     \* the report paths for which writeFileSync throws
    written,        \* the files of outputDir: report path -> markdown written
    saves,          \* the calls of saveValidationResults, in order
    console,        \* the lines put on the console, in order
    idx,            \* the position of files.forEach in files
    mainTotalScore, \* totalScore of main
    averageScore,   \* averageScore of main, NULL before it is computed
    mainPc,         \* where main is
    \* The regular expression objects of CRITERIA
    lastIndex,      \* pattern.lastIndex of each pattern with the g flag
    \* A run of reference-resolver.js on one file
    definitionsFile,    \* definitions.md: [readable, blocks], blocks the body
                        \* of the block of each key that has one
    definitions,        \* definitions of main, NULL before readDefinitions
    inputFile,          \* the file given: [readable, text]
    resolvedFile,       \* the file <base>-resolved<ext>: [exists, text]
    warnings,           \* the keys console.warn reported as not found
    resolverPc,         \* where the resolver is
    \* The body of the loop of main of fix-markdown.js, on one file
    markdownFile,       \* the content of the file at filePath, a sequence of
                        \* characters
    fixReturned,        \* what fixMarkdownFile returned, NULL before the call
    linksReturned,      \* what fixBrokenLinks returned, NULL before the call
    fixPc,              \* "fix" before the call of fixMarkdownFile, "links"
                        \* before that of fixBrokenLinks, "done" after it;
                        \* in a second run of main "again" between the two
                        \* calls and "end" after them
    \* A run of backend-optimizer.js on one source file
    sourceFile,         \* the content of the file scanned, a sequence of
                        \* pieces of code
    findings,           \* the findings of the scan, in order
    optimizerReport,    \* the AI part of the report, NULL before
                        \* generateReport: [made, recommendations,
                        \* implementation, sections], made FALSE when
                        \* generateAIOptimizations returned null
    optimizerPc,        \* where the optimizer is
    \* A call of generateFineTuningDataset
    promptFiles,        \* the prompt files given, in order: each
                        \* [readable, blocks], blocks the sequence of its
                        \* conversation blocks
    format,             \* the format argument
    outputWritable,     \* writeFileSync(outputFile, ...) does not throw
    outputFile,         \* the output file: [exists, lines]
    datasetReturned,    \* what the call returned, NULL before it
    datasetPc           \* "generate" before the call, "done" after

validatorVars == <<file, report, pc>>
mainVars == <<hasArgs, files, outputDir, unwritable, written, saves, console,
              idx, mainTotalScore, averageScore, mainPc>>

regexVars == <<lastIndex>>
resolverVars == <<definitionsFile, definitions, inputFile, resolvedFile,
                  warnings, resolverPc>>

fixVars == <<markdownFile, fixReturned, linksReturned, fixPc>>

optimizerVars == <<sourceFile, findings, optimizerReport, optimizerPc>>
datasetVars == <<promptFiles, format, outputWritable, outputFile,
                 datasetReturned, datasetPc>>

vars == <<validatorVars, mainVars, regexVars, resolverVars, fixVars,
          optimizerVars, datasetVars>>

NULL == [null |-> TRUE]

\* Each specification of this module is about one tool, or one part of one,
\* and leaves the variables of the others idle.
ValidatorIdle == file = NULL /\ report = NULL /\ pc = "idle"
MainIdle ==
    /\ hasArgs = FALSE /\ files = << >> /\ outputDir = "present"
    /\ unwritable = {} /\ written = << >> /\ saves = << >> /\ console = << >>
    /\ idx = 0 /\ mainTotalScore = 0 /\ averageScore = NULL /\ mainPc = "idle"

\* The patterns of CRITERIA with the g flag, as <<category, key>>
GlobalPatterns ==
    {<<"technical", "codeBlocks">>, <<"technical", "componentImports">>,
     <<"technical", "typescriptTypes">>, <<"technical", "reactHooks">>,
     <<"validation", "checklistItems">>, <<"aiCompatibility", "references">>}

\* A regular expression literal starts with lastIndex 0
RegexIdle == lastIndex = [pattern \in GlobalPatterns |-> 0]

ResolverIdle ==
    /\ definitionsFile = NULL /\ definitions = NULL /\ inputFile = NULL
    /\ resolvedFile = NULL /\ warnings = << >> /\ resolverPc = "idle"

FixIdle ==
    /\ markdownFile = << >> /\ fixReturned = NULL /\ linksReturned = NULL
    /\ fixPc = "idle"

OptimizerIdle ==
    /\ sourceFile = << >> /\ findings = << >> /\ optimizerReport = NULL
    /\ optimizerPc = "idle"

DatasetIdle ==
    /\ promptFiles = << >> /\ format = "openai" /\ outputWritable = TRUE
    /\ outputFile = [exists |-> FALSE, lines |-> << >>]
    /\ datasetReturned = NULL /\ datasetPc = "idle"

\* All the parts but `part` are idle, and stay as they are; the regular
\* expressions are used by validatePrompt, alone or within main
Idle(part) ==
    /\ IF part = "validator" THEN TRUE ELSE ValidatorIdle
    /\ IF part = "main" THEN TRUE ELSE MainIdle
    /\ IF part \in {"validator", "main"} THEN TRUE ELSE RegexIdle
    /\ IF part = "resolver" THEN TRUE ELSE ResolverIdle
    /\ IF part = "fix" THEN TRUE ELSE FixIdle
    /\ IF part = "optimizer" THEN TRUE ELSE OptimizerIdle
    /\ IF part = "dataset" THEN TRUE ELSE DatasetIdle

Frame(part) ==
    /\ IF part = "validator" THEN TRUE ELSE UNCHANGED validatorVars
    /\ IF part = "main" THEN TRUE ELSE UNCHANGED mainVars
    /\ IF part \in {"validator", "main"} THEN TRUE ELSE UNCHANGED regexVars
    /\ IF part = "resolver" THEN TRUE ELSE UNCHANGED resolverVars
    /\ IF part = "fix" THEN TRUE ELSE UNCHANGED fixVars
    /\ IF part = "optimizer" THEN TRUE ELSE UNCHANGED optimizerVars
    /\ IF part = "dataset" THEN TRUE ELSE UNCHANGED datasetVars

\* fs.readFileSync throws for this file
UNREADABLE == [unreadable |-> TRUE]

-----------------------------------------------------------------------------
(* The criteria table *)

CRITERIA ==
    [structure |->
        [overview     |-> [weight |-> 2],
         techStack    |-> [weight |-> 1],
         requirements |-> [weight |-> 2],
         steps        |-> [weight |-> 3],
         validation   |-> [weight |-> 2]],
     technical |->
        [codeBlocks       |-> [minCount |-> 1, weight |-> 3],
         componentImports |-> [weight |-> 2],
         typescriptTypes  |-> [weight |-> 2],
         reactHooks       |-> [weight |-> 1]],
     validation |->
        [checklistItems |-> [minCount |-> 5, weight |-> 3],
         errorHandling  |-> [weight |-> 2],
         examples       |-> [weight |-> 2]],
     aiCompatibility |->
        [contextBounds |-> [maxLength |-> 6000, weight |-> 3],
         clarity       |-> [weight |-> 3],
         references    |-> [weight |-> 2]]]

\* Object.entries visits the keys of a category in the order of the literal
StructureKeys == <<"overview", "techStack", "requirements", "steps", "validation">>
TechnicalKeys == <<"codeBlocks", "componentImports", "typescriptTypes", "reactHooks">>
ValidationKeys == <<"checklistItems", "errorHandling", "examples">>

\* A score s of the program is the integer s * Unit of the model.
Unit == CRITERIA.aiCompatibility.contextBounds.maxLength

-----------------------------------------------------------------------------
(* Documents *)

\* The vocabulary: one markdown line per kind, each ended by a newline.  In
\* the line of kind code, ''' stands for the fence of three backquotes (a
\* TLA+ string cannot hold a backquote).
LineText ==
    [overview      |-> "# Overview",
     techStack     |-> "Reference: [SOLNAI:TECH-STACK]",
     requirements  |-> "## Requirements",
     steps         |-> "## Implementation Steps",
     validation    |-> "## Validation",
     code          |-> "'''ts\nrun()\n'''",
     imports       |-> "import x from 'y'",
     typedHook     |-> "const n: number = useCount()",
     errorHandling |-> "## Error Handling",
     examples      |-> "## Examples",
     reference     |-> "See [SOLNAI:API]",
     item          |-> "- [ ] done"]

\* The kinds of line a document holds at most once
LineKinds == DOMAIN LineText \ {"item"}

\* The most checklist lines ("- [ ] done") of a document
MaxChecklist == 6

\* Document lengths beyond twice contextBounds.maxLength: 1..MaxBeyond more
MaxBeyond == 1

\* The lengths documents are filled up to with "." characters: none, the bound
\* of contextBounds, just above it, 1000 and 1630 above it (where percentages
\* come to lie on a half), just below twice the bound, twice the bound, and
\* beyond.
FillTargets ==
    LET bound == CRITERIA.aiCompatibility.contextBounds.maxLength
    IN  {0, bound, bound + 1, bound + 1000, bound + 1630, 2 * bound - 1, 2 * bound}
            \cup {2 * bound + b : b \in 1..MaxBeyond}

\* The regular expressions of CRITERIA that match inside a line of each kind,
\* once each: LineMatches[kind] is the set of <<category, key>> whose pattern
\* matches the line.
LineMatches ==
    [overview      |-> {<<"structure", "overview">>},
     techStack     |-> {<<"structure", "techStack">>,
                        <<"technical", "typescriptTypes">>,
                        <<"aiCompatibility", "references">>},
     requirements  |-> {<<"structure", "requirements">>},
     steps         |-> {<<"structure", "steps">>},
     validation    |-> {<<"structure", "validation">>},
     code          |-> {<<"technical", "codeBlocks">>},
     imports       |-> {<<"technical", "componentImports">>},
     typedHook     |-> {<<"technical", "typescriptTypes">>,
                        <<"technical", "reactHooks">>},
     errorHandling |-> {<<"validation", "errorHandling">>},
     examples      |-> {<<"validation", "examples">>},
     reference     |-> {<<"technical", "typescriptTypes">>,
                        <<"aiCompatibility", "references">>},
     item          |-> {<<"validation", "checklistItems">>}]

\* content.length of the lines alone
LinesLength(present, items) ==
    LET RECURSIVE Sum(_)
        Sum(S) == IF S = {} THEN 0
                  ELSE LET k == CHOOSE k \in S : TRUE
                       IN  Len(LineText[k]) + 1 + Sum(S \ {k})
    IN  Sum(present) + items * (Len(LineText.item) + 1)

\* A document: present is the set of kinds of line in the text, items the
\* number of checklist lines and filler the number of "." after them, which
\* fill the text up to length target (none when it is that long already).
Document(present, items, target) ==
    LET len == LinesLength(present, items)
    IN  [present |-> present,
         items   |-> items,
         filler  |-> IF target > len THEN target - len ELSE 0]

\* content.length
Length(content) == LinesLength(content.present, content.items) + content.filler

\* The text of a document: its lines in this order, each with its line end,
\* then the checklist lines, then the filler
LineOrder ==
    <<"overview", "techStack", "requirements", "steps", "validation", "code",
      "imports", "typedHook", "errorHandling", "examples", "reference">>

\* Where the match of a pattern with the g flag starts and ends in a line
MatchSpan ==
    [overview      |-> << >>,
     techStack     |-> (<<"technical", "typescriptTypes">> :> <<18, 23>>)
                       @@ (<<"aiCompatibility", "references">> :> <<11, 30>>),
     requirements  |-> << >>,
     steps         |-> << >>,
     validation    |-> << >>,
     code          |-> (<<"technical", "codeBlocks">> :> <<0, 15>>),
     imports       |-> (<<"technical", "componentImports">> :> <<0, 13>>),
     typedHook     |-> (<<"technical", "typescriptTypes">> :> <<7, 15>>)
                       @@ (<<"technical", "reactHooks">> :> <<18, 26>>),
     errorHandling |-> << >>,
     examples      |-> << >>,
     reference     |-> (<<"technical", "typescriptTypes">> :> <<11, 15>>)
                       @@ (<<"aiCompatibility", "references">> :> <<4, 16>>),
     item          |-> (<<"validation", "checklistItems">> :> <<0, 5>>)]

\* The index in the text at which the line of this kind starts
LineStart(content, kind) ==
    LinesLength({LineOrder[i] : i \in {j \in DOMAIN LineOrder :
                     /\ LineOrder[j] \in content.present
                     /\ \E k \in DOMAIN LineOrder : k > j /\ LineOrder[k] = kind}}, 0)

\* The index at which checklist line n starts
ItemStart(content, n) == LinesLength(content.present, n - 1)

\* The matches of a pattern with the g flag in the text, each <<start, end>>
MatchSpans(content, pattern) ==
    {<<LineStart(content, k) + MatchSpan[k][pattern][1],
       LineStart(content, k) + MatchSpan[k][pattern][2]>> :
         k \in {l \in content.present : pattern \in DOMAIN MatchSpan[l]}}
    \cup (IF pattern \in DOMAIN MatchSpan.item
          THEN {<<ItemStart(content, n) + MatchSpan.item[pattern][1],
                  ItemStart(content, n) + MatchSpan.item[pattern][2]>> :
                    n \in 1..content.items}
          ELSE {})

\* One pattern.exec(content) in place of content.match(pattern): the first
\* match at or after pattern.lastIndex, which it moves to the end of the match
StringMatch_Exec(content, pattern, from) ==
    LET ahead == {s \in MatchSpans(content, pattern) : s[1] >= from}
    IN  IF ahead = {} THEN [count |-> 0, lastIndex |-> 0]
        ELSE LET first == CHOOSE s \in ahead : \A t \in ahead : s[1] <= t[1]
             IN  [count |-> 1, lastIndex |-> first[2]]

\* The number of matches of a pattern in the whole text: the sum of its
\* matches in the lines
MatchCount(content, pattern) ==
    Cardinality({k \in content.present : pattern \in LineMatches[k]})
        + (IF pattern \in LineMatches.item THEN content.items ELSE 0)

\* content.match(pattern) for a pattern with the g flag whose lastIndex is
\* `from`: match sets lastIndex to 0 before it searches, so it returns every
\* match of the text wherever the cursor was, and leaves lastIndex 0
StringMatch(content, pattern, from) ==
    [count |-> MatchCount(content, pattern), lastIndex |-> 0]

\* content.match(CRITERIA[category][key].pattern): the number of matches (for
\* a pattern without the g flag match returns the first match or null, which
\* the validators only test for truth: matches > 0).
Matches(content, category, key) ==
    IF <<category, key>> \in GlobalPatterns
    THEN StringMatch(content, <<category, key>>, lastIndex[<<category, key>>]).count
    ELSE MatchCount(content, <<category, key>>)

\* pattern.lastIndex of the patterns with the g flag after the validators
\* have run on content, each pattern being matched once
LastIndexAfter(content) ==
    [pattern \in GlobalPatterns |->
        StringMatch(content, pattern, lastIndex[pattern]).lastIndex]

-----------------------------------------------------------------------------
(* Numbers *)

\* Math.round(x) for x = num / den >= 0: the nearest integer, halves upwards
Round(num, den) == (2 * num + den) \div (2 * den)

\* The numbers of the program are IEEE 754 doubles.  A double x >= 0 is
\* [m, e] for m * 2^e, m a natural number of at most Mantissa bits.  A natural
\* number below 2^72 is written as its four digits to the base Base, lowest
\* first: sums, products and quotients before rounding have up to 72 bits.
Base == 262144
Mantissa == 53
Zero == [m |-> <<0, 0, 0, 0>>, e |-> 0]
Doubles == [m : Seq(Nat), e : Int]

\* The digits of the integer n >= 0, and the integer of the digits a
Wide(n) == <<n % Base, n \div Base, 0, 0>>
ToInteger(a) == a[1] + Base * a[2]

\* The digit a[i], 0 beyond the digits of a
DigitAt(a, i) == IF i \in 1..4 THEN a[i] ELSE 0

\* a * c for 0 <= c < 2^13
BigTimes(a, c) ==
    LET v1 == a[1] * c
        v2 == a[2] * c + v1 \div Base
        v3 == a[3] * c + v2 \div Base
        v4 == a[4] * c + v3 \div Base
    IN  <<v1 % Base, v2 % Base, v3 % Base, v4>>

\* [q, r]: quotient and remainder of a by d, for 0 < d < 2^13
BigOver(a, d) ==
    LET v3 == (a[4] % d) * Base + a[3]
        v2 == (v3 % d) * Base + a[2]
        v1 == (v2 % d) * Base + a[1]
    IN  [q |-> <<v1 \div d, v2 \div d, v3 \div d, a[4] \div d>>, r |-> v1 % d]

\* a + b
BigPlus(a, b) ==
    LET v1 == a[1] + b[1]
        v2 == a[2] + b[2] + v1 \div Base
        v3 == a[3] + b[3] + v2 \div Base
        v4 == a[4] + b[4] + v3 \div Base
    IN  <<v1 % Base, v2 % Base, v3 % Base, v4>>

\* a - b for a >= b (\div rounds down: a borrow is a carry of -1)
BigMinus(a, b) ==
    LET v1 == a[1] - b[1]
        v2 == a[2] - b[2] + v1 \div Base
        v3 == a[3] - b[3] + v2 \div Base
        v4 == a[4] - b[4] + v3 \div Base
    IN  <<v1 % Base, v2 % Base, v3 % Base, v4>>

\* a * 2^s for s >= 0 (Base is 2^18), the product below 2^72
ShiftLeft(a, s) ==
    LET k == s \div 18
        p == 2^(s % 18)
        r == 2^(18 - (s % 18))
        Digit(i) == (DigitAt(a, i - k) % r) * p + DigitAt(a, i - k - 1) \div r
    IN  <<Digit(1), Digit(2), Digit(3), Digit(4)>>

\* [q, sticky]: a \div 2^s for s >= 0, and whether a bit was shifted out
ShiftRight(a, s) ==
    LET k == s \div 18
        p == 2^(s % 18)
        r == 2^(18 - (s % 18))
        Digit(i) == DigitAt(a, i + k) \div p + (DigitAt(a, i + k + 1) % p) * r
    IN  [q      |-> <<Digit(1), Digit(2), Digit(3), Digit(4)>>,
         sticky |-> DigitAt(a, k + 1) % p # 0 \/ \E i \in 1..4 : i <= k /\ a[i] # 0]

\* The number of bits of the digit x
RECURSIVE BitsOf(_)
BitsOf(x) ==
    IF x < 2 THEN x
    ELSE IF x < 16 THEN 1 + BitsOf(x \div 2)
    ELSE 4 + BitsOf(x \div 16)

\* The number of bits of a
BitLength(a) ==
    IF a[4] > 0 THEN 54 + BitsOf(a[4])
    ELSE IF a[3] > 0 THEN 36 + BitsOf(a[3])
    ELSE IF a[2] > 0 THEN 18 + BitsOf(a[2])
    ELSE BitsOf(a[1])

\* The double nearest to n * 2^e (plus less than 2^e when sticky), ties to
\* the even mantissa: the rounding of every operation on doubles
RoundToDouble(n, e, sticky) ==
    LET bits == BitLength(n)
        \* r * 2^exp for r of Mantissa bits, or of one more (a power of 2)
        Normal(r, exp) ==
            IF BitLength(r) > Mantissa
            THEN [m |-> ShiftRight(r, 1).q, e |-> exp + 1]
            ELSE [m |-> r, e |-> exp]
        \* cut.q is n cut to Mantissa + 1 bits: the last bit decides, and on
        \* a tie the bits below it (cut.sticky, sticky), or else the parity
        \* of the mantissa q
        Nearest(cut, q) ==
            Normal(IF cut.q[1] % 2 = 1 /\ (cut.sticky \/ sticky \/ q[1] % 2 = 1)
                   THEN BigPlus(q, Wide(1)) ELSE q,
                   e + bits - Mantissa)
        Cut(cut) == Nearest(cut, ShiftRight(cut.q, 1).q)
    IN  IF bits <= Mantissa THEN [m |-> n, e |-> IF bits = 0 THEN 0 ELSE e]
        ELSE Cut(ShiftRight(n, bits - Mantissa - 1))

\* The double of the integer n >= 0
ToDouble[n \in Nat] == [m |-> Wide(n), e |-> 0]

\* x * c for a double x and an integer 0 <= c < 2^13
DoubleTimes[x \in Doubles, c \in Nat] ==
    IF c = 0 THEN Zero ELSE RoundToDouble(BigTimes(x.m, c), x.e, FALSE)

\* x / d for a double x and an integer 0 < d < 2^13: the quotient of the
\* mantissa shifted to 71 bits, and whether there is a remainder
DoubleOver[x \in Doubles, d \in Nat] ==
    LET s     == 71 - BitLength(x.m)
        parts == BigOver(ShiftLeft(x.m, s), d)
    IN  RoundToDouble(parts.q, x.e - s, parts.r # 0)

\* x + y, for doubles whose sum at the lower exponent has at most 72 bits
DoublePlus[x \in Doubles, y \in Doubles] ==
    IF x = Zero THEN y
    ELSE IF y = Zero THEN x
    ELSE LET e == IF x.e < y.e THEN x.e ELSE y.e
         IN  RoundToDouble(BigPlus(ShiftLeft(x.m, x.e - e),
                                   ShiftLeft(y.m, y.e - e)), e, FALSE)

\* x - y for x >= y, doubles that have at most 72 bits at the lower exponent
DoubleMinus[x \in Doubles, y \in Doubles] ==
    IF y = Zero THEN x
    ELSE LET e == IF x.e < y.e THEN x.e ELSE y.e
         IN  RoundToDouble(BigMinus(ShiftLeft(x.m, x.e - e),
                                    ShiftLeft(y.m, y.e - e)), e, FALSE)

\* Math.round(x): the integer nearest to the double x, halves upwards
MathRound[x \in Doubles] ==
    IF x.e >= 0 THEN ToInteger(ShiftLeft(x.m, x.e))
    ELSE (ToInteger(ShiftRight(x.m, -x.e - 1).q) + 1) \div 2

\* Math.round((totalScore / maxScore) * 100) for the double totalScore and
\* maxScore > 0
Percentage(totalScore, maxScore) ==
    MathRound[DoubleTimes[DoubleOver[totalScore, maxScore], 100]]

-----------------------------------------------------------------------------
(* The category validators.  A category result is                          *)
(* [results, totalScore, double, maxScore, percentage]; results maps each  *)
(* key to [passed, score, double, maxScore, found], found being the number *)
(* the details string reports.  double is the number the program holds,    *)
(* score and totalScore what its expression is worth in exact arithmetic,  *)
(* in 1/Unit; the two differ by the rounding of the doubles.               *)

\* The empty results object and zero totals a validator starts from
EmptyTotals ==
    [results |-> << >>, totalScore |-> 0, double |-> Zero, maxScore |-> 0]

\* Accumulate with totalScore = result.score for totalScore += result.score
Accumulate_Assign(acc, key, result, weight) ==
    [results    |-> acc.results @@ (key :> result),
     totalScore |-> result.score,
     double     |-> result.double,
     maxScore   |-> acc.maxScore + weight]

\* results[key] = result; totalScore += result.score; maxScore += weight
Accumulate(acc, key, result, weight) ==
    [results    |-> acc.results @@ (key :> result),
     totalScore |-> acc.totalScore + result.score,
     double     |-> DoublePlus[acc.double, result.double],
     maxScore   |-> acc.maxScore + weight]

\* The object a validator returns
CategoryResult(acc) ==
    [results    |-> acc.results,
     totalScore |-> acc.totalScore,
     double     |-> acc.double,
     maxScore   |-> acc.maxScore,
     percentage |-> Percentage(acc.double, acc.maxScore)]

\* criterion.minCount || 1
MinCount(criterion) ==
    IF "minCount" \in DOMAIN criterion /\ criterion.minCount # 0
    THEN criterion.minCount ELSE 1

\* FoundResult testing content.match(pattern) || [] for truth: an empty
\* array is truthy
FoundResult_EmptyArrayTruthy(criterion, matches) ==
    [passed   |-> TRUE,
     score    |-> criterion.weight * Unit,
     double   |-> ToDouble[criterion.weight],
     maxScore |-> criterion.weight,
     found    |-> matches]

\* The body of the loop of validateStructure, and of the else branch of the
\* loop of validateValidation: found or not found
FoundResult(criterion, matches) ==
    [passed   |-> matches > 0,
     score    |-> IF matches > 0 THEN criterion.weight * Unit ELSE 0,
     double   |-> IF matches > 0 THEN ToDouble[criterion.weight] ELSE Zero,
     maxScore |-> criterion.weight,
     found    |-> matches]

\* TechnicalResult with passed = matches.length > minCount
TechnicalResult_AboveMinimum(criterion, matches) ==
    LET minCount == MinCount(criterion)
        passed   == matches > minCount
    IN  [passed   |-> passed,
         score    |-> IF passed THEN criterion.weight * Unit
                      ELSE IF matches > 0 THEN (criterion.weight * Unit) \div 2
                      ELSE 0,
         double   |-> IF passed THEN ToDouble[criterion.weight]
                      ELSE IF matches > 0
                           THEN DoubleOver[ToDouble[criterion.weight], 2]
                      ELSE Zero,
         maxScore |-> criterion.weight,
         found    |-> matches]

\* The body of the loop of validateTechnical: half the weight for some, but
\* too few matches
TechnicalResult(criterion, matches) ==
    LET minCount == MinCount(criterion)
        passed   == matches >= minCount
    IN  [passed   |-> passed,
         score    |-> IF passed THEN criterion.weight * Unit
                      ELSE IF matches > 0 THEN (criterion.weight * Unit) \div 2
                      ELSE 0,
         double   |-> IF passed THEN ToDouble[criterion.weight]
                      ELSE IF matches > 0
                           THEN DoubleOver[ToDouble[criterion.weight], 2]
                      ELSE Zero,
         maxScore |-> criterion.weight,
         found    |-> matches]

\* ChecklistResult with the partial credit of validateTechnical, half the weight
ChecklistResult_HalfWeight(criterion, matches) ==
    LET minCount == MinCount(criterion)
        passed   == matches >= minCount
    IN  [passed   |-> passed,
         score    |-> IF passed THEN criterion.weight * Unit
                      ELSE IF matches > 0 THEN (criterion.weight * Unit) \div 2
                      ELSE 0,
         double   |-> IF passed THEN ToDouble[criterion.weight]
                      ELSE IF matches > 0
                           THEN DoubleOver[ToDouble[criterion.weight], 2]
                      ELSE Zero,
         maxScore |-> criterion.weight,
         found    |-> matches]

\* ChecklistResult with passed = matches.length > minCount
ChecklistResult_AboveMinimum(criterion, matches) ==
    LET minCount == MinCount(criterion)
        passed   == matches > minCount
    IN  [passed   |-> passed,
         score    |-> IF passed THEN criterion.weight * Unit
                      ELSE IF matches > 0
                           THEN (matches * criterion.weight * Unit) \div minCount
                      ELSE 0,
         \* (matches.length / minCount) * criterion.weight
         double   |-> IF passed THEN ToDouble[criterion.weight]
                      ELSE IF matches > 0
                           THEN DoubleTimes[DoubleOver[ToDouble[matches], minCount],
                                            criterion.weight]
                      ELSE Zero,
         maxScore |-> criterion.weight,
         found    |-> matches]

\* ChecklistResult with the partial credit matches * weight, not divided by
\* minCount
ChecklistResult_Unscaled(criterion, matches) ==
    LET minCount == MinCount(criterion)
        passed   == matches >= minCount
    IN  [passed   |-> passed,
         score    |-> IF passed THEN criterion.weight * Unit
                      ELSE IF matches > 0 THEN matches * criterion.weight * Unit
                      ELSE 0,
         double   |-> IF passed THEN ToDouble[criterion.weight]
                      ELSE IF matches > 0
                           THEN DoubleTimes[ToDouble[matches], criterion.weight]
                      ELSE Zero,
         maxScore |-> criterion.weight,
         found    |-> matches]

\* The checklistItems branch of the loop of validateValidation: the share
\* matches / minCount of the weight for some, but too few matches
ChecklistResult(criterion, matches) ==
    LET minCount == MinCount(criterion)
        passed   == matches >= minCount
    IN  [passed   |-> passed,
         score    |-> IF passed THEN criterion.weight * Unit
                      ELSE IF matches > 0
                           THEN (matches * criterion.weight * Unit) \div minCount
                      ELSE 0,
         \* (matches.length / minCount) * criterion.weight
         double   |-> IF passed THEN ToDouble[criterion.weight]
                      ELSE IF matches > 0
                           THEN DoubleTimes[DoubleOver[ToDouble[matches], minCount],
                                            criterion.weight]
                      ELSE Zero,
         maxScore |-> criterion.weight,
         found    |-> matches]

RECURSIVE StructureLoop(_, _, _)
StructureLoop(content, i, acc) ==
    IF i > Len(StructureKeys) THEN acc
    ELSE LET key       == StructureKeys[i]
             criterion == CRITERIA.structure[key]
             result    == FoundResult(criterion, Matches(content, "structure", key))
         IN  StructureLoop(content, i + 1,
                           Accumulate(acc, key, result, criterion.weight))

validateStructure(content) == CategoryResult(StructureLoop(content, 1, EmptyTotals))

RECURSIVE TechnicalLoop(_, _, _)
TechnicalLoop(content, i, acc) ==
    IF i > Len(TechnicalKeys) THEN acc
    ELSE LET key       == TechnicalKeys[i]
             criterion == CRITERIA.technical[key]
             result    == TechnicalResult(criterion, Matches(content, "technical", key))
         IN  TechnicalLoop(content, i + 1,
                           Accumulate(acc, key, result, criterion.weight))

validateTechnical(content) == CategoryResult(TechnicalLoop(content, 1, EmptyTotals))

RECURSIVE ValidationLoop(_, _, _)
ValidationLoop(content, i, acc) ==
    IF i > Len(ValidationKeys) THEN acc
    ELSE LET key       == ValidationKeys[i]
             criterion == CRITERIA.validation[key]
             matches   == Matches(content, "validation", key)
             result    == IF key = "checklistItems"
                          THEN ChecklistResult(criterion, matches)
                          ELSE FoundResult(criterion, matches)
         IN  ValidationLoop(content, i + 1,
                            Accumulate(acc, key, result, criterion.weight))

validateValidation(content) == CategoryResult(ValidationLoop(content, 1, EmptyTotals))

\* The double Math.max(0, contextScore), contextScore being weight or
\* weight * (1 - ((contentLength - maxLength) / maxLength)): 0 when the
\* difference 1 - ... is 0 or less
ContextScore(criterion, contentLength) ==
    LET beyond == contentLength - criterion.maxLength
    IN  IF beyond <= 0 THEN ToDouble[criterion.weight]
        ELSE IF beyond >= criterion.maxLength THEN Zero
        ELSE DoubleTimes[DoubleMinus[ToDouble[1],
                                     DoubleOver[ToDouble[beyond], criterion.maxLength]],
                         criterion.weight]

\* ContextBoundsResult decaying over twice maxLength instead of maxLength
ContextBoundsResult_SlowDecay(criterion, contentLength) ==
    LET contextPassed == contentLength <= criterion.maxLength
        contextScore  ==
            IF contextPassed THEN criterion.weight * Unit
            ELSE criterion.weight * Unit
                    - (criterion.weight * (contentLength - criterion.maxLength) * Unit)
                        \div (2 * criterion.maxLength)
    IN  [passed   |-> contextPassed,
         score    |-> IF contextScore > 0 THEN contextScore ELSE 0,
         double   |-> ContextScore(criterion, contentLength),
         maxScore |-> criterion.weight,
         found    |-> contentLength]

\* results.contextBounds of validateAICompatibility
ContextBoundsResult(criterion, contentLength) ==
    LET contextPassed == contentLength <= criterion.maxLength
        \* weight * (1 - ((contentLength - maxLength) / maxLength))
        contextScore  ==
            IF contextPassed THEN criterion.weight * Unit
            ELSE criterion.weight * Unit
                    - (criterion.weight * (contentLength - criterion.maxLength) * Unit)
                        \div criterion.maxLength
    IN  [passed   |-> contextPassed,
         score    |-> IF contextScore > 0 THEN contextScore ELSE 0,
         double   |-> ContextScore(criterion, contentLength),
         maxScore |-> criterion.weight,
         found    |-> contentLength]

\* results.references of validateAICompatibility
ReferencesResult(criterion, matches) ==
    [passed   |-> matches > 0,
     score    |-> IF matches > 0 THEN criterion.weight * Unit ELSE 0,
     double   |-> IF matches > 0 THEN ToDouble[criterion.weight] ELSE Zero,
     maxScore |-> criterion.weight,
     found    |-> matches]

\* ClarityResult with passed = structureScore >= 0.7
ClarityResult_AtLeast(criterion, structurePercentage) ==
    LET structureScore == DoubleOver[ToDouble[structurePercentage], 100]
    IN  [passed   |-> structurePercentage * 10 >= 7 * 100,
         score    |-> (criterion.weight * structurePercentage * Unit) \div 100,
         double   |-> DoubleTimes[structureScore, criterion.weight],
         maxScore |-> criterion.weight,
         found    |-> MathRound[DoubleTimes[structureScore, 100]]]

\* results.clarity of validateAICompatibility: structureScore is
\* structurePercentage / 100, the score weight * structureScore, passed
\* structureScore > 0.7 (the double of 70 / 100 is the double 0.7, and the
\* division is monotonic), and the details report
\* Math.round(structureScore * 100)
ClarityResult(criterion, structurePercentage) ==
    LET structureScore == DoubleOver[ToDouble[structurePercentage], 100]
    IN  [passed   |-> structurePercentage * 10 > 7 * 100,
         score    |-> (criterion.weight * structurePercentage * Unit) \div 100,
         double   |-> DoubleTimes[structureScore, criterion.weight],
         maxScore |-> criterion.weight,
         found    |-> MathRound[DoubleTimes[structureScore, 100]]]

validateAICompatibility(content) ==
    LET contextCriterion == CRITERIA.aiCompatibility.contextBounds
        refCriterion     == CRITERIA.aiCompatibility.references
        clarityCriterion == CRITERIA.aiCompatibility.clarity
        context    == ContextBoundsResult(contextCriterion, Length(content))
        references == ReferencesResult(refCriterion,
                          Matches(content, "aiCompatibility", "references"))
        clarity    == ClarityResult(clarityCriterion,
                          validateStructure(content).percentage)
        acc1 == Accumulate(EmptyTotals, "contextBounds", context, contextCriterion.weight)
        acc2 == Accumulate(acc1, "references", references, refCriterion.weight)
        acc3 == Accumulate(acc2, "clarity", clarity, clarityCriterion.weight)
    IN  CategoryResult(acc3)

-----------------------------------------------------------------------------
(* The report of one file *)

\* fs.readFileSync(filePath, 'utf8'), null when it throws
readPromptFile(f) == IF f = UNREADABLE THEN NULL ELSE f

\* Recommendation with > for >=: a percentage on a threshold gets the lower label
Recommendation_StrictThresholds(overallPercentage) ==
    IF overallPercentage > 90 THEN "Approved for production"
    ELSE IF overallPercentage > 75 THEN "Approved with minor revisions"
    ELSE IF overallPercentage > 50 THEN "Requires significant revision"
    ELSE "Rejected"

\* The recommendation validatePrompt derives from the overall percentage
Recommendation(overallPercentage) ==
    IF overallPercentage >= 90 THEN "Approved for production"
    ELSE IF overallPercentage >= 75 THEN "Approved with minor revisions"
    ELSE IF overallPercentage >= 50 THEN "Requires significant revision"
    ELSE "Rejected"

\* OverallScore whose total leaves aiCompatibility.totalScore out
OverallScore_MissingCategory(structure, technical, validation, aiCompatibility) ==
    LET totalScore == structure.totalScore + technical.totalScore
                        + validation.totalScore
        double     == DoublePlus[DoublePlus[structure.double, technical.double],
                                 validation.double]
        maxScore   == structure.maxScore + technical.maxScore
                        + validation.maxScore + aiCompatibility.maxScore
    IN  [score      |-> totalScore,
         double     |-> double,
         maxScore   |-> maxScore,
         percentage |-> Percentage(double, maxScore)]

\* The overallScore object of the report
OverallScore(structure, technical, validation, aiCompatibility) ==
    LET totalScore == structure.totalScore + technical.totalScore
                        + validation.totalScore + aiCompatibility.totalScore
        \* the sum of the four doubles, from the left
        double     == DoublePlus[DoublePlus[DoublePlus[structure.double,
                                                       technical.double],
                                            validation.double],
                                 aiCompatibility.double]
        maxScore   == structure.maxScore + technical.maxScore
                        + validation.maxScore + aiCompatibility.maxScore
    IN  [score      |-> totalScore,
         double     |-> double,
         maxScore   |-> maxScore,
         percentage |-> Percentage(double, maxScore)]

\* What validatePrompt may be called on: a file that cannot be read, or
\* the content of one
Contents ==
    {UNREADABLE} \cup [present : SUBSET LineKinds, items : Nat, filler : Nat]

\* validatePrompt(filePath): null for a file that cannot be read and for an
\* empty one (!content), the report otherwise
validatePrompt[f \in Contents] ==
    LET content == readPromptFile(f)
    IN  IF content = NULL \/ Length(content) = 0 THEN NULL
        ELSE LET structure       == validateStructure(content)
                 technical       == validateTechnical(content)
                 validation      == validateValidation(content)
                 aiCompatibility == validateAICompatibility(content)
                 overallScore    == OverallScore(structure, technical,
                                                 validation, aiCompatibility)
             IN  [structure       |-> structure,
                  technical       |-> technical,
                  validation      |-> validation,
                  aiCompatibility |-> aiCompatibility,
                  overallScore    |-> overallScore,
                  recommendation  |-> Recommendation(overallScore.percentage)]

-----------------------------------------------------------------------------
(* One call of validatePrompt on a file *)

Init ==
    /\ \/ \E present \in SUBSET LineKinds, items \in 0..MaxChecklist,
              target \in FillTargets :
                file = Document(present, items, target)
       \/ file = UNREADABLE
    /\ report = NULL
    /\ pc = "validate"
    /\ RegexIdle
    /\ Idle("validator")

ValidatePrompt ==
    /\ pc = "validate"
    /\ report' = validatePrompt[file]
    /\ lastIndex' = IF report' = NULL THEN lastIndex
                    ELSE LastIndexAfter(readPromptFile(file))
    /\ pc' = "done"
    /\ UNCHANGED file
    /\ Frame("validator")

Next == ValidatePrompt

Spec == Init /\ [][Next]_vars

\* validatePrompt has returned a report for the file
Validated == pc = "done" /\ report # NULL

TypeOK ==
    /\ pc \in {"validate", "done"}
    /\ Validated =>
        /\ report.overallScore.percentage \in 0..100
        /\ report.recommendation \in STRING

-----------------------------------------------------------------------------
(* Properties of the report of one file *)

\* The pattern-matched criteria, as <<category, key>>
PatternCriteria ==
    {<<"structure", StructureKeys[i]>> : i \in DOMAIN StructureKeys}
        \cup {<<"technical", TechnicalKeys[i]>> : i \in DOMAIN TechnicalKeys}
        \cup {<<"validation", ValidationKeys[i]>> : i \in DOMAIN ValidationKeys}
        \cup {<<"aiCompatibility", "references">>}

\* Those that declare a minimum occurrence count, and those that do not
WithMinimum == {c \in PatternCriteria : "minCount" \in DOMAIN CRITERIA[c[1]][c[2]]}
WithoutMinimum == PatternCriteria \ WithMinimum

\* The result of criterion c in the report, its weight, and the number of
\* matches of its pattern in the validated document
ResultOf(c) == report[c[1]].results[c[2]]
WeightOf(c) == CRITERIA[c[1]][c[2]].weight
MatchesOf(c) == Matches(file, c[1], c[2])

\* C1: the recommendation is the label of the first threshold, taken in the
\* order 90, 75, 50, that the overall percentage reaches, and "Rejected"
\* below 50; a percentage equal to a threshold gets the higher label.
C1_RecommendationByThreshold ==
    Validated =>
        LET p == report.overallScore.percentage
            r == report.recommendation
        IN  /\ p >= 90 => r = "Approved for production"
            /\ (p >= 75 /\ p < 90) => r = "Approved with minor revisions"
            /\ (p >= 50 /\ p < 75) => r = "Requires significant revision"
            /\ p < 50 => r = "Rejected"

\* A report whose overall percentage is exactly 75
C1_Witness ==
    /\ Validated
    /\ report.overallScore.percentage = 75
    /\ report.recommendation = "Approved with minor revisions"

\* C2: a criterion that declares a minimum count and has c matches with
\* 0 < c < minimum fails and scores exactly weight * (c / minimum), which is
\* strictly between 0 and the weight.
C2_PartialCreditBelowMinimum ==
    Validated =>
        \A c \in WithMinimum :
            LET n   == MatchesOf(c)
                min == CRITERIA[c[1]][c[2]].minCount
                res == ResultOf(c)
            IN  (0 < n /\ n < min) =>
                    /\ ~res.passed
                    /\ res.score * min = WeightOf(c) * n * Unit
                    /\ 0 < res.score /\ res.score < WeightOf(c) * Unit

\* Three checklist items against the minimum of 5 and weight 3: score 1.8
C2_Witness ==
    /\ Validated
    /\ MatchesOf(<<"validation", "checklistItems">>) = 3
    /\ 10 * report.validation.results.checklistItems.score = 18 * Unit

\* C3: a criterion whose pattern matches at least its minimum count (the
\* declared one, or 1) passes with the full weight.
C3_FullScoreAtMinimum ==
    Validated =>
        \A c \in PatternCriteria :
            LET min == IF c \in WithMinimum THEN CRITERIA[c[1]][c[2]].minCount ELSE 1
            IN  (min > 0 /\ MatchesOf(c) >= min) =>
                    /\ ResultOf(c).passed
                    /\ ResultOf(c).score = WeightOf(c) * Unit

\* Exactly the minimum of 5 checklist items: passed, full weight
C3_Witness ==
    /\ Validated
    /\ MatchesOf(<<"validation", "checklistItems">>)
            = CRITERIA.validation.checklistItems.minCount
    /\ report.validation.results.checklistItems.passed
    /\ report.validation.results.checklistItems.score
            = CRITERIA.validation.checklistItems.weight * Unit

\* C4: a pattern-matched criterion with no match scores 0 and does not pass.
C4_NoMatchNoScore ==
    Validated =>
        \A c \in PatternCriteria :
            MatchesOf(c) = 0 => (ResultOf(c).score = 0 /\ ~ResultOf(c).passed)

\* A document with text but not one match of any pattern
C4_Witness ==
    /\ Validated
    /\ \A c \in PatternCriteria : MatchesOf(c) = 0 /\ ResultOf(c).score = 0

\* C5: a criterion without a declared minimum passes iff there is at least
\* one match, and scores the full weight or zero.
C5_BooleanCriteria ==
    Validated =>
        \A c \in WithoutMinimum :
            /\ ResultOf(c).passed <=> MatchesOf(c) >= 1
            /\ ResultOf(c).score \in {0, WeightOf(c) * Unit}
            /\ ResultOf(c).passed <=> ResultOf(c).score = WeightOf(c) * Unit

\* typescriptTypes found twice, reactHooks not at all
C5_Witness ==
    /\ Validated
    /\ MatchesOf(<<"technical", "typescriptTypes">>) = 2
    /\ report.technical.results.typescriptTypes.passed
    /\ MatchesOf(<<"technical", "reactHooks">>) = 0
    /\ ~report.technical.results.reactHooks.passed

\* C6: contextBounds (bound 6000, weight 3) passes iff the document is no
\* longer than the bound, with the full weight; a longer document fails and
\* scores max(0, weight * (1 - (length - bound) / bound)): 2.5 at length
\* 7000, 0 at twice the bound and beyond, never a negative score.
C6_ContextBoundsDecay ==
    Validated =>
        LET criterion == CRITERIA.aiCompatibility.contextBounds
            bound  == criterion.maxLength
            weight == criterion.weight
            length == Length(file)
            res    == report.aiCompatibility.results.contextBounds
        IN  /\ bound = 6000 /\ weight = 3
            /\ res.passed <=> length <= bound
            /\ res.passed => res.score = weight * Unit
            /\ (length > bound /\ length <= 2 * bound) =>
                    res.score * bound = weight * Unit * (2 * bound - length)
            /\ length >= 2 * bound => res.score = 0
            /\ length = 7000 => 2 * res.score = 5 * Unit
            /\ res.score >= 0

\* A document of 7000 characters, scoring 2.5
C6_Witness ==
    /\ Validated
    /\ Length(file) = 7000
    /\ ~report.aiCompatibility.results.contextBounds.passed
    /\ 2 * report.aiCompatibility.results.contextBounds.score = 5 * Unit

\* C7: clarity scores weight * ratio, ratio being the percentage of the
\* structure category for the same document divided by 100, and passes iff
\* ratio > 0.7: a structure percentage of exactly 70 does not pass.
C7_ClarityFromStructure ==
    Validated =>
        LET res    == report.aiCompatibility.results.clarity
            weight == CRITERIA.aiCompatibility.clarity.weight
            pct    == report.structure.percentage
        IN  /\ res.score * 100 = weight * pct * Unit
            /\ res.passed <=> pct > 70

\* A structure percentage of exactly 70: clarity scores 2.1 and fails
C7_Witness ==
    /\ Validated
    /\ report.structure.percentage = 70
    /\ ~report.aiCompatibility.results.clarity.passed
    /\ 10 * report.aiCompatibility.results.clarity.score = 21 * Unit

\* The categories of a report
Categories == {"structure", "technical", "validation", "aiCompatibility"}

\* The weight CRITERIA gives criterion key of category cat
CriterionWeight(cat, key) == CRITERIA[cat][key].weight

\* C8: every criterion result of the four validators has
\* 0 <= score <= maxScore, and maxScore is the weight of the criterion.
C8_ScoreWithinWeight ==
    Validated =>
        \A cat \in Categories :
            /\ DOMAIN report[cat].results = DOMAIN CRITERIA[cat]
            /\ \A key \in DOMAIN report[cat].results :
                LET res == report[cat].results[key]
                IN  /\ res.maxScore = CriterionWeight(cat, key)
                    /\ 0 <= res.score
                    /\ res.score <= res.maxScore * Unit

\* A document longer than twice the bound of contextBounds, whose linear
\* score is below zero, and with too few checklist items
C8_Witness ==
    /\ Validated
    /\ Length(file) > 2 * CRITERIA.aiCompatibility.contextBounds.maxLength
    /\ report.aiCompatibility.results.contextBounds.score = 0
    /\ report.validation.results.checklistItems.score > 0
    /\ ~report.validation.results.checklistItems.passed

\* The sum of f[k] over the keys k of function f
RECURSIVE SumOver(_, _)
SumOver(f, keys) ==
    IF keys = {} THEN 0
    ELSE LET k == CHOOSE k \in keys : TRUE
         IN  f[k] + SumOver(f, keys \ {k})

\* The keys of each category in the order its validator adds the scores up
KeysInOrder ==
    [structure       |-> StructureKeys,
     technical       |-> TechnicalKeys,
     validation      |-> ValidationKeys,
     aiCompatibility |-> <<"contextBounds", "references", "clarity">>]

\* a <= b for natural numbers given by their digits
DigitsAtMost(a, b) ==
    \/ a = b
    \/ \E i \in 1..4 : a[i] < b[i] /\ \A k \in (i + 1)..4 : a[k] = b[k]

\* x <= y for doubles, both brought to the lower exponent
AtMost(x, y) ==
    LET e == IF x.e < y.e THEN x.e ELSE y.e
    IN  DigitsAtMost(ShiftLeft(x.m, x.e - e), ShiftLeft(y.m, y.e - e))

\* The doubles x and y are the same number
SameNumber(x, y) == AtMost(x, y) /\ AtMost(y, x)

\* The sum 0 + doubles[1] + ... + doubles[n] of the program, each addition
\* rounded
RECURSIVE SumOfDoubles(_, _)
SumOfDoubles(doubles, n) ==
    IF n = 0 THEN Zero
    ELSE DoublePlus[SumOfDoubles(doubles, n - 1), doubles[n]]

\* p is the double x rounded to the nearest integer, halves upwards:
\* p - 1/2 <= x < p + 1/2, compared as 2p - 1 <= 2x < 2p + 1
IsMathRound(p, x) ==
    LET twice == [m |-> x.m, e |-> x.e + 1]
    IN  /\ p = 0 \/ AtMost(ToDouble[2 * p - 1], twice)
        /\ ~AtMost(ToDouble[2 * p + 1], twice)

\* C9: in every category result of every document totalScore is the sum of
\* the scores of the category's criterion results, maxScore the sum of their
\* weights, totalScore is at most maxScore, and percentage is
\* round(100 * totalScore / maxScore): the numbers being those the program
\* holds, the sum and the quotient are its own, and the percentage is the
\* integer nearest to its (totalScore / maxScore) * 100.
C9_CategoryTotals ==
    Validated =>
        \A cat \in Categories :
            LET res     == report[cat]
                keys    == KeysInOrder[cat]
                scores  == [i \in DOMAIN keys |-> res.results[keys[i]].double]
                weights == [i \in DOMAIN keys |-> CRITERIA[cat][keys[i]].weight]
            IN  /\ DOMAIN res.results = {keys[i] : i \in DOMAIN keys}
                /\ SameNumber(res.double, SumOfDoubles(scores, Len(keys)))
                /\ res.maxScore = SumOver(weights, DOMAIN keys)
                /\ res.maxScore > 0
                /\ AtMost(res.double, ToDouble[res.maxScore])
                /\ IsMathRound(res.percentage,
                               DoubleTimes[DoubleOver[res.double, res.maxScore], 100])

\* A 7000 character document with 70 % for structure and no reference:
\* aiCompatibility adds 2.5, 0 and 3 * (70 / 100) up to the double 4.6, and
\* (totalScore / 8) * 100 is a double just below 57.5: the percentage is 57
C9_Witness ==
    /\ Validated
    /\ Length(file) = 7000
    /\ report.structure.percentage = 70
    /\ report.aiCompatibility.results.references.found = 0
    /\ SameNumber(report.aiCompatibility.double, DoubleOver[ToDouble[46], 10])
    /\ report.aiCompatibility.maxScore = 8
    /\ report.aiCompatibility.percentage = 57

\* C10: the overall score is the sum of the four category totals, the
\* overall maximum the sum of the four category maxima, and the overall
\* percentage is round(100 * score / maximum), within 0..100: the sum is
\* that of the program (structure, technical, validation, aiCompatibility,
\* in this order) and the percentage is the integer nearest to its
\* (totalScore / maxScore) * 100.
C10_OverallScore ==
    Validated =>
        LET overall == report.overallScore
            order   == <<"structure", "technical", "validation", "aiCompatibility">>
            totals  == [i \in DOMAIN order |-> report[order[i]].double]
            maxima  == [cat \in Categories |-> report[cat].maxScore]
        IN  /\ SameNumber(overall.double, SumOfDoubles(totals, Len(order)))
            /\ overall.maxScore = SumOver(maxima, Categories)
            /\ overall.maxScore > 0
            /\ IsMathRound(overall.percentage,
                           DoubleTimes[DoubleOver[overall.double, overall.maxScore], 100])
            /\ overall.percentage \in 0..100

\* A document whose category totals are 10, 5, 2.4 and a double near 7.185:
\* their sum is a double just below 24.585 of 33, and the percentage is 74
C10_Witness ==
    /\ Validated
    /\ report.structure.percentage = 100
    /\ report.validation.results.checklistItems.found = 4
    /\ report.overallScore.maxScore = 33
    /\ ~AtMost(DoubleOver[ToDouble[24585], 1000], report.overallScore.double)
    /\ report.overallScore.percentage = 74
    /\ report.recommendation = "Requires significant revision"

-----------------------------------------------------------------------------
(* A run of prompt-validator.js: main *)

\* The most files the pattern matches
MaxMatched == 3

\* The paths the file pattern can match
Paths ==
    { [dir |-> "a", base |-> "guide", ext |-> ".md"],
      [dir |-> "a", base |-> "guide", ext |-> ".txt"],
      [dir |-> "a", base |-> "notes", ext |-> ".md"],
      [dir |-> "b", base |-> "guide", ext |-> ".md"] }

\* What is found under a path: a file that cannot be read, an empty file, or
\* one of two documents
EMPTY == Document({}, 0, 0)
GoodGuide ==
    Document({"overview", "techStack", "requirements", "steps", "validation",
              "code", "typedHook", "examples"}, 5, 0)
PoorGuide == Document({"reference", "imports"}, 2, 0)
FileContents == {UNREADABLE, EMPTY, GoodGuide, PoorGuide}

\* path.basename(filePath)
Basename(path) == [base |-> path.base, ext |-> path.ext]

\* path.join(outputDir, basename(results.path, extname(results.path)) +
\* '-validation.md'), as the name of the report within outputDir
ReportPath(path) == [base |-> path.base, suffix |-> "-validation", ext |-> ".md"]

\* The report paths of the files of Paths
ReportPaths == {ReportPath(path) : path \in Paths}

\* validatePrompt(filePath) for the file f = [path, content]: the report
\* with the fields file and path, or null
validatePromptAt(f) ==
    LET Named(results) ==
            IF results = NULL THEN NULL
            ELSE [file |-> Basename(f.path), path |-> f.path] @@ results
    IN  Named(validatePrompt[f.content])

\* formatValidationResults(results): the markdown, as the values it prints in
\* the order it prints them (found stands for the details string)
formatValidationResults(results) ==
    LET Section(category) ==
            [percentage |-> category.percentage,
             lines |-> [key \in DOMAIN category.results |->
                            [passed  |-> category.results[key].passed,
                             details |-> category.results[key].found]]]
    IN  [file            |-> results.file,
         overallScore    |-> results.overallScore,
         recommendation  |-> results.recommendation,
         structure       |-> Section(results.structure),
         technical       |-> Section(results.technical),
         validation      |-> Section(results.validation),
         aiCompatibility |-> Section(results.aiCompatibility)]

\* A line of the console
Line(level, text, about) == [level |-> level, text |-> text, about |-> about]

\* process.argv holds a pattern or nothing.  glob.sync(filePattern) returns
\* the paths the pattern matches, each once, in an order of its own: files is
\* any of them in any order, with what is found under each; without a
\* pattern nothing is matched.
MainInit ==
    /\ hasArgs \in BOOLEAN
    /\ \E n \in 0..MaxMatched :
        \E matched \in [1..n -> Paths], content \in [1..n -> FileContents] :
            /\ \A i, j \in 1..n : matched[i] = matched[j] => i = j
            /\ hasArgs \/ n = 0
            /\ files = [i \in 1..n |-> [path |-> matched[i], content |-> content[i]]]
    /\ outputDir \in {"present", "absent", "uncreatable"}
    /\ \E failing \in ReportPaths : unwritable \in {{}, {failing}}
    /\ written = << >>
    /\ saves = << >>
    /\ console = << >>
    /\ idx = 0
    /\ mainTotalScore = 0
    /\ averageScore = NULL
    /\ mainPc = "args"
    /\ RegexIdle
    /\ Idle("main")

\* main, lines 329-335: no argument, the three lines of console.error (what
\* to provide, the usage, an example) and exit code 1
CheckArgs ==
    /\ mainPc = "args"
    /\ IF hasArgs
       THEN /\ mainPc' = "mkdir"
            /\ UNCHANGED console
       ELSE /\ mainPc' = "exit1"
            /\ console' = console
                    \o <<Line("error", "please provide file paths or a glob pattern", NULL),
                         Line("error", "usage", NULL),
                         Line("error", "example", NULL)>>
    /\ UNCHANGED <<hasArgs, files, outputDir, unwritable, written, saves, idx,
                   mainTotalScore, averageScore, lastIndex>>
    /\ Frame("main")

\* main, lines 340-344: mkdirSync is not inside a try block
EnsureOutputDir ==
    /\ mainPc = "mkdir"
    /\ CASE outputDir = "present" ->
                mainPc' = "glob" /\ UNCHANGED <<outputDir, console>>
         [] outputDir = "absent" ->
                /\ outputDir' = "present"
                /\ console' = console \o <<Line("log", "created output directory", NULL)>>
                /\ mainPc' = "glob"
         [] outputDir = "uncreatable" ->
                mainPc' = "crashed" /\ UNCHANGED <<outputDir, console>>
    /\ UNCHANGED <<hasArgs, files, unwritable, written, saves, idx, mainTotalScore,
                   averageScore, lastIndex>>
    /\ Frame("main")

\* main, lines 346-354
Glob ==
    /\ mainPc = "glob"
    /\ IF Len(files) = 0
       THEN /\ console' = console \o <<Line("warn", "no files found", NULL)>>
            /\ mainPc' = "exit0"
            /\ UNCHANGED <<idx, mainTotalScore>>
       ELSE /\ console' = console \o <<Line("log", "processing", Len(files))>>
            /\ mainTotalScore' = 0
            /\ idx' = 1
            /\ mainPc' = "loop"
    /\ UNCHANGED <<hasArgs, files, outputDir, unwritable, written, saves,
                   averageScore, lastIndex>>
    /\ Frame("main")

\* main, lines 356-363: one call of the callback of files.forEach, with
\* validatePrompt, readPromptFile and saveValidationResults
ProcessFile ==
    /\ mainPc = "loop"
    /\ LET Callback(f, results) ==
            LET reading == IF f.content = UNREADABLE
                           THEN <<Line("error", "error reading file", f.path)>>
                           ELSE << >>
                target  == ReportPath(f.path)
                fails   == target \in unwritable
                saving  == IF results = NULL THEN << >>
                           ELSE IF fails
                                THEN <<Line("error", "error saving validation results", f.path)>>
                                ELSE <<Line("log", "validation report saved", target)>>
            IN  /\ console' = console \o <<Line("log", "validating", f.path)>>
                                 \o reading \o saving
                /\ mainTotalScore' = IF results = NULL THEN mainTotalScore
                                 ELSE mainTotalScore + results.overallScore.percentage
                /\ saves' = IF results = NULL THEN saves
                            ELSE Append(saves, [file     |-> idx,
                                                path     |-> target,
                                                markdown |-> formatValidationResults(results),
                                                saved    |-> ~fails])
                /\ written' = IF results = NULL \/ fails THEN written
                              ELSE (target :> formatValidationResults(results)) @@ written
                /\ lastIndex' = IF results = NULL THEN lastIndex
                                ELSE LastIndexAfter(readPromptFile(f.content))
       IN  Callback(files[idx], validatePromptAt(files[idx]))
    /\ idx' = idx + 1
    /\ mainPc' = IF idx = Len(files) THEN "average" ELSE "loop"
    /\ UNCHANGED <<hasArgs, files, outputDir, unwritable, averageScore>>
    /\ Frame("main")

\* main, lines 365-367
Average ==
    /\ mainPc = "average"
    /\ averageScore' = Round(mainTotalScore, Len(files))
    /\ console' = console \o <<Line("log", "validation complete", NULL),
                               Line("log", "average score", averageScore')>>
    /\ mainPc' = "done"
    /\ UNCHANGED <<hasArgs, files, outputDir, unwritable, written, saves, idx,
                   mainTotalScore, lastIndex>>
    /\ Frame("main")

MainNext == CheckArgs \/ EnsureOutputDir \/ Glob \/ ProcessFile \/ Average

SpecMain == MainInit /\ [][MainNext]_vars

-----------------------------------------------------------------------------
(* Properties of a run of main *)

\* The positions main has gone through the callback of forEach for
Visited == IF mainPc \in {"loop", "average", "done"} THEN 1..(idx - 1) ELSE {}

\* The calls of saveValidationResults for the file at position i
SavesOf(i) == {k \in DOMAIN saves : saves[k].file = i}

\* The files of a run that validatePrompt returns a report for
Reported == {i \in DOMAIN files : validatePrompt[files[i].content] # NULL}

\* The number of lines of the console with this level
CountLevel(level) == Cardinality({k \in DOMAIN console : console[k].level = level})

RECURSIVE SumPercentages(_)
SumPercentages(S) ==
    IF S = {} THEN 0
    ELSE LET i == CHOOSE j \in S : TRUE
         IN  validatePrompt[files[i].content].overallScore.percentage
                 + SumPercentages(S \ {i})

MainTypeOK ==
    /\ mainPc \in {"idle", "args", "mkdir", "glob", "loop", "average", "done",
                   "exit0", "exit1", "crashed"}
    /\ idx \in 0..(Len(files) + 1)
    /\ DOMAIN written \subseteq ReportPaths

\* The report of the file at position i is in the output directory: one of
\* the files there holds what formatValidationResults gives for it
HasReport(i) ==
    /\ i \in Reported
    /\ \E p \in DOMAIN written :
           written[p] = formatValidationResults(validatePromptAt(files[i]))

\* C13: In a run with a file that cannot be read, that file is logged and
\* skipped, and every other matched file is validated and has its report:
\* wherever the unreadable file stands in the list, every file main has gone
\* past was taken through validation, the unreadable ones have an error line
\* and no report, every other file has its report in the output directory
\* unless the write of it throws, a finished run has gone past all the files,
\* and the loop is never ended by an exception.
C13_UnreadableSkipped ==
    (\E j \in DOMAIN files : files[j].content = UNREADABLE) =>
        /\ \A i \in Visited :
            /\ \E k \in DOMAIN console :
                   console[k] = Line("log", "validating", files[i].path)
            /\ files[i].content = UNREADABLE =>
                   /\ \E k \in DOMAIN console :
                          console[k] = Line("error", "error reading file", files[i].path)
                   /\ SavesOf(i) = {}
            /\ (files[i].content # UNREADABLE
                    /\ ReportPath(files[i].path) \notin unwritable) =>
                   HasReport(i)
        /\ mainPc = "done" => Visited = DOMAIN files
        /\ mainPc = "crashed" => idx = 0

\* C14: The average a finished run reports is the mean of the overall
\* percentages of the files that were validated, Math.round of their sum
\* over their number, also when some files were skipped.
C14_AverageOverProcessed ==
    (mainPc = "done" /\ Reported # {}) =>
        averageScore = Round(SumPercentages(Reported), Cardinality(Reported))

\* C15: No failure to create the output directory or to write a report ends
\* the run with an exception: main never stops in an uncaught exception, and
\* a run that was given a pattern matching files goes through all of them.
C15_FailuresNeverAbort ==
    /\ mainPc # "crashed"
    /\ mainPc \in {"done", "average"} => Visited = DOMAIN files

\* A document the run writes is a summary when it holds the date, the number
\* of files, the mean and the rows of the files
IsSummary(doc) == {"date", "count", "average", "rows"} \subseteq DOMAIN doc

\* C16: A finished run that went through at least one file has written one
\* summary document.
C16_SummaryWritten ==
    mainPc = "done" =>
        Cardinality({p \in DOMAIN written : IsSummary(written[p])}) = 1

\* The markdown holds what a report is to show: file, overall percentage and
\* score, recommendation, and for each category its percentage and a line
\* for each of its criteria
HoldsReport(markdown, results) ==
    /\ markdown.file = results.file
    /\ markdown.overallScore = results.overallScore
    /\ markdown.recommendation = results.recommendation
    /\ \A category \in Categories :
        /\ markdown[category].percentage = results[category].percentage
        /\ DOMAIN markdown[category].lines = DOMAIN results[category].results
        /\ \A key \in DOMAIN results[category].results :
            /\ markdown[category].lines[key].passed = results[category].results[key].passed
            /\ markdown[category].lines[key].details = results[category].results[key].found
    /\ DOMAIN markdown.structure.lines = DOMAIN CRITERIA.structure
    /\ DOMAIN markdown.technical.lines = DOMAIN CRITERIA.technical
    /\ DOMAIN markdown.validation.lines = DOMAIN CRITERIA.validation
    /\ DOMAIN markdown.aiCompatibility.lines = DOMAIN CRITERIA.aiCompatibility

\* C17: Every file validated has exactly one report written into the output
\* directory, named after the file's base name with -validation and an
\* extension (that of the file or .md), holding the values of its report:
\* saveValidationResults is called once for it, for that name, with that
\* markdown, and unless the write throws the output directory has the report
\* of the file under that name from then on.
C17_OneReportPerFile ==
    \A i \in Visited \cap Reported :
        /\ Cardinality(SavesOf(i)) = 1
        /\ \A k \in SavesOf(i) :
            /\ saves[k].path.base = files[i].path.base
            /\ saves[k].path.suffix = "-validation"
            /\ saves[k].path.ext \in {files[i].path.ext, ".md"}
            /\ HoldsReport(saves[k].markdown, validatePromptAt(files[i]))
            /\ saves[k].path \notin unwritable =>
                   /\ saves[k].path \in DOMAIN written
                   /\ written[saves[k].path] = saves[k].markdown

\* C18: A run whose pattern matches no file emits one warning and ends with
\* exit code 0, having validated nothing and written no report; the output
\* directory, created when absent, is all it leaves behind.
C18_NoMatchLeavesNothing ==
    (hasArgs /\ files = << >> /\ mainPc \notin {"args", "mkdir", "glob"}) =>
        /\ mainPc = "exit0"
        /\ CountLevel("warn") = 1
        /\ CountLevel("error") = 0
        /\ saves = << >>
        /\ written = << >>
        /\ outputDir = "present"

\* What a report says but for the name of the file
ReportBody(markdown) == [field \in DOMAIN markdown \ {"file"} |-> markdown[field]]

\* C12: Validation keeps no state from one call to the next: within a run,
\* two files of the same content get the same report whatever was validated
\* before them or between them, and no pattern with the g flag is left with
\* a cursor (lastIndex is 0 between the calls); what match counts is every
\* match of the text.
C12_SameContentSameReport ==
    /\ \A a, b \in DOMAIN saves :
           files[saves[a].file].content = files[saves[b].file].content =>
               ReportBody(saves[a].markdown) = ReportBody(saves[b].markdown)
    /\ \A pattern \in GlobalPatterns : lastIndex[pattern] = 0
    /\ \A a \in DOMAIN saves, pattern \in GlobalPatterns :
           LET content == files[saves[a].file].content
           IN  StringMatch(content, pattern, lastIndex[pattern]).count
                   = Cardinality(MatchSpans(content, pattern))

\* A run that validated the same document twice with another document
\* between the two
C12_Witness ==
    \E a, b, c \in DOMAIN saves :
        /\ a < b /\ b < c
        /\ files[saves[a].file].content = files[saves[c].file].content
        /\ files[saves[a].file].content # files[saves[b].file].content
        /\ \E pattern \in GlobalPatterns :
               MatchSpans(files[saves[a].file].content, pattern) # {}

-----------------------------------------------------------------------------
(* reference-resolver.js.  A text is a sequence of tokens: a word, white   *)
(* space, a reference [SOLNAI:KEY], or the heading the resolver puts in    *)
(* front of a definition.                                                  *)

\* The keys references and definition blocks can name
Keys == {"API", "TECH-STACK"}

\* The most tokens of the body of a definition block, and of the file given
MaxBody == 2
MaxInput == 2

Word == [kind |-> "word", key |-> ""]
Space == [kind |-> "space", key |-> ""]
Ref(key) == [kind |-> "ref", key |-> key]
Heading(key) == [kind |-> "heading", key |-> key]

\* The sequences of at most n elements of S
SeqUpTo(S, n) == UNION {[1..m -> S] : m \in 0..n}

\* A file that cannot be read, a file that is not there
Unreadable == [readable |-> FALSE, text |-> << >>]
Readable(text) == [readable |-> TRUE, text |-> text]
Absent == [exists |-> FALSE, text |-> << >>]
Existing(text) == [exists |-> TRUE, text |-> text]

\* What can stand between <!-- SOLNAI:KEY --> and <!-- /SOLNAI:KEY -->
Bodies == SeqUpTo({Word, Space} \cup {Ref(key) : key \in Keys}, MaxBody)

\* The texts of the file given
Inputs == SeqUpTo({Word} \cup {Ref(key) : key \in Keys}, MaxInput)

\* String.prototype.trim
RECURSIVE Trim(_)
Trim(text) ==
    IF text = << >> THEN << >>
    ELSE IF Head(text) = Space THEN Trim(Tail(text))
    ELSE IF text[Len(text)] = Space THEN Trim(SubSeq(text, 1, Len(text) - 1))
    ELSE text

\* readDefinitions: definitions[key] = match[2].trim() for each block
readDefinitions(blocks) == [key \in DOMAIN blocks |-> Trim(blocks[key])]

\* if (definitions[key]): the key has a definition and it is not ''
Truthy(defs, key) == key \in DOMAIN defs /\ defs[key] # << >>

\* The callback of content.replace: what one match is replaced by
Replacement(defs, token) ==
    IF Truthy(defs, token.key)
    THEN <<Space, Heading(token.key), Space>> \o defs[token.key] \o <<Space>>
    ELSE <<token>>

\* content.replace(REFERENCE_PATTERN, callback): one pass over the content
\* read; what the callback returns is not searched again
RECURSIVE Replace(_, _)
Replace(defs, content) ==
    IF content = << >> THEN << >>
    ELSE (IF Head(content).kind = "ref"
          THEN Replacement(defs, Head(content))
          ELSE <<Head(content)>>) \o Replace(defs, Tail(content))

\* The keys of the references of a text, in order
RECURSIVE References(_)
References(content) ==
    IF content = << >> THEN << >>
    ELSE (IF Head(content).kind = "ref" THEN <<Head(content).key>> ELSE << >>)
             \o References(Tail(content))

ResolverInit ==
    /\ \/ \E defined \in SUBSET Keys : \E blocks \in [defined -> Bodies] :
              definitionsFile = [readable |-> TRUE, blocks |-> blocks]
       \/ definitionsFile = [readable |-> FALSE, blocks |-> << >>]
    /\ \/ \E text \in Inputs : inputFile = Readable(text)
       \/ inputFile = Unreadable
    /\ definitions = NULL
    /\ resolvedFile = Absent
    /\ warnings = << >>
    /\ resolverPc = "definitions"
    /\ Idle("resolver")

\* main, lines 88-90, with readDefinitions
ReadDefinitions ==
    /\ resolverPc = "definitions"
    /\ IF ~definitionsFile.readable
       THEN resolverPc' = "exit1" /\ UNCHANGED definitions
       ELSE /\ definitions' = readDefinitions(definitionsFile.blocks)
            /\ resolverPc' = "process"
    /\ UNCHANGED <<definitionsFile, inputFile, resolvedFile, warnings>>
    /\ Frame("resolver")

\* processFile(file, definitions)
ResolveFile ==
    /\ resolverPc = "process"
    /\ IF ~inputFile.readable
       THEN UNCHANGED <<resolvedFile, warnings>>
       ELSE LET refs == References(inputFile.text)
                replacementsMade ==
                    \E n \in DOMAIN refs : Truthy(definitions, refs[n])
            IN  /\ warnings' = SelectSeq(refs, LAMBDA key : ~Truthy(definitions, key))
                /\ resolvedFile' = IF replacementsMade
                                   THEN Existing(Replace(definitions, inputFile.text))
                                   ELSE resolvedFile
    /\ resolverPc' = "done"
    /\ UNCHANGED <<definitionsFile, definitions, inputFile>>
    /\ Frame("resolver")

ResolverNext == ReadDefinitions \/ ResolveFile

SpecResolver == ResolverInit /\ [][ResolverNext]_vars

\* The keys definitions.md has a block for
DefinedKeys == DOMAIN definitionsFile.blocks

\* C19: Once the resolver has gone through a file with a reference to a key
\* definitions.md defines, the resolved file exists and holds no reference
\* to a key definitions.md defines.
C19_FullyExpanded ==
    (/\ resolverPc = "done"
     /\ inputFile.readable
     /\ \E n \in DOMAIN inputFile.text :
            inputFile.text[n].kind = "ref" /\ inputFile.text[n].key \in DefinedKeys) =>
        /\ resolvedFile.exists
        /\ \A n \in DOMAIN resolvedFile.text :
               resolvedFile.text[n].kind = "ref" =>
                   resolvedFile.text[n].key \notin DefinedKeys

-----------------------------------------------------------------------------
(* fix-markdown.js: fixMarkdownFile and fixBrokenLinks, which main calls   *)
(* one after the other on every file.  A text is the sequence of its       *)
(* characters; indices are those of JavaScript, from 0.  A backquote is    *)
(* written "'".  The texts of the model are lines of headings, text, code  *)
(* fences, list items, ordered list items and links, joined by line ends.  *)

\* The most lines of the file
MaxLines == 3

NL == "\n"

\* An ordered list item whose text has n characters
LongItem(n) == <<"2", ".", " ">> \o [i \in 1..n |-> "a"]

\* if (... currentIndex > lastIndex + match[0].length + 100),
\* if (... matchIndex > lastPos + 100)
ListGap == 100

\* http://localhost:3000 and #local-development
LocalhostUrl ==
    <<"h", "t", "t", "p", ":", "/", "/", "l", "o", "c", "a", "l", "h", "o", "s",
      "t", ":", "3", "0", "0", "0">>
LocalDevelopment ==
    <<"#", "l", "o", "c", "a", "l", "-", "d", "e", "v", "e", "l", "o", "p", "m",
      "e", "n", "t">>

\* The link [text](target)
Link(text, target) == <<"[">> \o text \o <<"]", "(">> \o target \o <<")">>

\* The lines a file is made of: a heading, text, an empty line, text with a
\* trailing space, a code fence without and with a language, a list item, an
\* ordered list item, an ordered list item with a text of ListGap
\* characters, a link to a page of localhost:3000 and a link within the file
FileLines ==
    {<<"#", " ", "a">>, <<"a">>, << >>, <<"a", " ">>,
     <<"'", "'", "'">>, <<"'", "'", "'", "a">>,
     <<"-", " ", "a">>, <<"2", ".", " ", "a">>, LongItem(ListGap),
     Link(<<"a">>, LocalhostUrl \o <<"/", "x">>), Link(<<"a">>, <<"#", "a">>)}

\* The lines joined by line ends
RECURSIVE Join(_)
Join(lines) ==
    IF lines = << >> THEN << >>
    ELSE IF Len(lines) = 1 THEN lines[1]
    ELSE lines[1] \o <<NL>> \o Join(Tail(lines))

\* content.substring(from, to) and content.substring(from)
Substring(content, from, to) ==
    LET clamp(i) == IF i < 0 THEN 0 ELSE IF i > Len(content) THEN Len(content) ELSE i
        lo == IF clamp(from) < clamp(to) THEN clamp(from) ELSE clamp(to)
        hi == IF clamp(from) < clamp(to) THEN clamp(to) ELSE clamp(from)
    IN  SubSeq(content, lo + 1, hi)
SubstringFrom(content, from) == Substring(content, from, Len(content))

\* content.endsWith(text), content.startsWith(text)
EndsWith(content, text) ==
    /\ Len(content) >= Len(text)
    /\ SubSeq(content, Len(content) - Len(text) + 1, Len(content)) = text
StartsWith(content, text) ==
    /\ Len(content) >= Len(text)
    /\ SubSeq(content, 1, Len(text)) = text

\* content.trim() === ''
TrimIsEmpty(content) == \A i \in DOMAIN content : content[i] \in {" ", NL}

\* The characters of content at the positions (from 1) of the set kept
RECURSIVE KeepFrom(_, _, _)
KeepFrom(content, i, kept) ==
    LET dropped == {j \in i..Len(content) : j \notin kept}
    IN  IF dropped = {} THEN SubSeq(content, i, Len(content))
        ELSE LET j == CHOOSE m \in dropped : \A n \in dropped : m <= n
             IN  SubSeq(content, i, j - 1) \o KeepFrom(content, j + 1, kept)

\* content.replace(/[ \t]+$/gm, ''): the spaces up to the end of a line go
RemoveTrailingSpaces(content) ==
    LET Trailing(i) ==
            /\ content[i] = " "
            /\ \A j \in i..Len(content) :
                   (\A k \in i..j : content[k] # NL) => content[j] = " "
    IN  KeepFrom(content, 1, {i \in DOMAIN content : ~Trailing(i)})

\* content.replace(/\n{3,}/g, '\n\n'): of a run of line ends two are kept
RemoveMultipleBlankLines(content) ==
    LET Third(i) ==
            /\ i > 2
            /\ content[i] = NL /\ content[i - 1] = NL /\ content[i - 2] = NL
    IN  KeepFrom(content, 1, {i \in DOMAIN content : ~Third(i)})

\* The line of content that starts at index `index`, without its line end
LineFrom(content, index) ==
    LET rest == SubstringFrom(content, index)
        ends == {i \in DOMAIN rest : rest[i] = NL}
    IN  IF ends = {} THEN rest
        ELSE SubSeq(rest, 1, (CHOOSE i \in ends : \A j \in ends : i <= j) - 1)

\* /^(#{1,6} .+)$/: one to six #, a space, and at least one more character
IsHeading(line) ==
    \E n \in 1..6 :
        /\ Len(line) >= n + 2
        /\ \A i \in 1..n : line[i] = "#"
        /\ line[n + 1] = " "

\* The indices at which headingRegex.exec(content) matches, one after the
\* other: the starts of the lines that are headings
HeadingIndices(content) ==
    {index \in 0..(Len(content) - 1) :
        /\ index = 0 \/ content[index] = NL
        /\ IsHeading(LineFrom(content, index))}

\* The body of the while loop over the headings: the match at `index` of
\* content, spliced into newContent at the same index
HeadingStep(content, newContent, index) ==
    LET heading == LineFrom(content, index)
        beforeHeading == Substring(content, 0, index)
        hasBlankLineBefore == EndsWith(beforeHeading, <<NL, NL>>) \/ index = 0
        afterHeading == SubstringFrom(content, index + Len(heading))
        hasBlankLineAfter ==
            StartsWith(afterHeading, <<NL, NL>>) \/ TrimIsEmpty(afterHeading)
        prefix == IF ~hasBlankLineBefore /\ index > 0 THEN <<NL>> ELSE << >>
        suffix == IF ~hasBlankLineAfter THEN <<NL>> ELSE << >>
    IN  IF ~hasBlankLineBefore \/ ~hasBlankLineAfter
        THEN Substring(newContent, 0, index) \o prefix \o heading \o suffix
                 \o SubstringFrom(newContent, index + Len(heading))
        ELSE newContent

\* The while loop over the matches of headingRegex in content not yet taken
RECURSIVE HeadingLoop(_, _, _)
HeadingLoop(content, newContent, indices) ==
    IF indices = {} THEN newContent
    ELSE LET index == CHOOSE i \in indices : \A j \in indices : i <= j
         IN  HeadingLoop(content, HeadingStep(content, newContent, index),
                         indices \ {index})

\* Blank lines around headings (MD022)
FixHeadings(content) == HeadingLoop(content, content, HeadingIndices(content))

\* content.replace(/\n+$/, '\n')
RECURSIVE StripLineEnds(_)
StripLineEnds(content) ==
    IF content # << >> /\ content[Len(content)] = NL
    THEN StripLineEnds(SubSeq(content, 1, Len(content) - 1))
    ELSE content

\* MD047 without the else branch: a line end is added where there is none,
\* line ends in excess are kept
FixFinalNewline_AddOnly(content) ==
    IF ~EndsWith(content, <<NL>>) THEN content \o <<NL>> ELSE content

\* Files end with a single newline (MD047)
FixFinalNewline(content) ==
    IF ~EndsWith(content, <<NL>>) THEN content \o <<NL>>
    ELSE IF EndsWith(content, <<NL, NL>>) THEN StripLineEnds(content) \o <<NL>>
    ELSE content

\* \s
Whitespace == {" ", NL}

\* The position (from 1) of the first character at or after position i that
\* is not white space, Len(content) + 1 when there is none
SkipWhitespace(content, i) ==
    CHOOSE j \in i..(Len(content) + 1) :
        /\ j = Len(content) + 1 \/ content[j] \notin Whitespace
        /\ \A k \in i..(j - 1) : content[k] \in Whitespace

\* The text stands in content at index `index`
At(content, index, text) ==
    /\ index >= 0
    /\ index + Len(text) <= Len(content)
    /\ \A k \in DOMAIN text : content[index + k] = text[k]

Fence == <<"'", "'", "'">>

\* content.replace(/'''\s*\n/g, "'''text\n") (MD040): a fence, the white
\* space after it up to its last line end
FixCodeFences(content) ==
    LET MatchEnd(i) ==
            IF ~At(content, i - 1, Fence) THEN 0
            ELSE LET ends == {j \in (i + 3)..(SkipWhitespace(content, i + 3) - 1) :
                                 content[j] = NL}
                 IN  IF ends = {} THEN 0
                     ELSE CHOOSE j \in ends : \A k \in ends : k <= j
        RECURSIVE Scan(_)
        Scan(i) ==
            LET found == {j \in i..Len(content) : MatchEnd(j) > 0}
            IN  IF found = {} THEN SubSeq(content, i, Len(content))
                ELSE LET j == CHOOSE m \in found : \A n \in found : m <= n
                     IN  SubSeq(content, i, j - 1) \o Fence
                             \o <<"t", "e", "x", "t", NL>> \o Scan(MatchEnd(j) + 1)
    IN  Scan(1)

\* The indices at which a line of content starts
LineStarts(content) ==
    {index \in 0..(Len(content) - 1) : index = 0 \/ content[index] = NL}

\* The matches regex.exec(content) returns one after the other from index
\* `from` on, for a regex anchored at the start of a line: lengthAt[index] is
\* the length of its match at index, 0 when it does not match there
RECURSIVE ExecAll(_, _)
ExecAll(lengthAt, from) ==
    LET found == {index \in DOMAIN lengthAt : index >= from /\ lengthAt[index] > 0}
    IN  IF found = {} THEN << >>
        ELSE LET index == CHOOSE i \in found : \A j \in found : i <= j
             IN  <<[index |-> index, length |-> lengthAt[index]]>>
                     \o ExecAll(lengthAt, index + lengthAt[index])

\* Blank line before each line that starts with a fence (MD031):
\* codeBlockStartRegex /^'''/gm, the match at index of content spliced into
\* newContent at the same index
FixCodeBlockStarts(content) ==
    LET matches == ExecAll([index \in LineStarts(content) |->
                               IF At(content, index, Fence) THEN 3 ELSE 0], 0)
        RECURSIVE Loop(_, _)
        Loop(newContent, k) ==
            IF k > Len(matches) THEN newContent
            ELSE LET index == matches[k].index
                     hasBlankLineBefore ==
                         EndsWith(Substring(content, 0, index), <<NL, NL>>) \/ index = 0
                 IN  Loop(IF ~hasBlankLineBefore /\ index > 0
                          THEN Substring(newContent, 0, index) \o <<NL>> \o Fence
                                   \o SubstringFrom(newContent, index + 3)
                          ELSE newContent, k + 1)
    IN  Loop(content, 1)

\* Blank line after each closing fence (MD031): codeBlockEndRegex
\* /^'''\s*$/gm matches a fence with the white space after it up to the end
\* of the text or to the last line end before other text
FixCodeBlockEnds(content) ==
    LET MatchLength(index) ==
            IF ~At(content, index, Fence) THEN 0
            ELSE LET stop == SkipWhitespace(content, index + 4)
                     ends == {j \in (index + 4)..(stop - 1) : content[j] = NL}
                 IN  IF stop = Len(content) + 1 THEN stop - 1 - index
                     ELSE IF ends = {} THEN 0
                     ELSE (CHOOSE j \in ends : \A k \in ends : k <= j) - 1 - index
        matches == ExecAll([index \in LineStarts(content) |-> MatchLength(index)], 0)
        RECURSIVE Loop(_, _)
        Loop(newContent, k) ==
            IF k > Len(matches) THEN newContent
            ELSE LET end == matches[k].index + matches[k].length
                     afterBlock == SubstringFrom(content, end)
                     hasBlankLineAfter ==
                         StartsWith(afterBlock, <<NL, NL>>) \/ TrimIsEmpty(afterBlock)
                 IN  Loop(IF ~hasBlankLineAfter /\ ~TrimIsEmpty(afterBlock)
                          THEN Substring(newContent, 0, end) \o <<NL>>
                                   \o SubstringFrom(newContent, end)
                          ELSE newContent, k + 1)
    IN  Loop(content, 1)

\* \d, the digit of each value
Digits == <<"0", "1", "2", "3", "4", "5", "6", "7", "8", "9">>
IsDigit(char) == \E d \in DOMAIN Digits : Digits[d] = char

\* The position (from 1) of the first character at or after position i that
\* is not a digit, Len(content) + 1 when there is none
SkipDigits(content, i) ==
    CHOOSE j \in i..(Len(content) + 1) :
        /\ j = Len(content) + 1 \/ ~IsDigit(content[j])
        /\ \A k \in i..(j - 1) : IsDigit(content[k])

\* text.indexOf('\n')
IndexOfNewline(text) ==
    LET ends == {i \in DOMAIN text : text[i] = NL}
    IN  IF ends = {} THEN -1 ELSE (CHOOSE i \in ends : \A j \in ends : i <= j) - 1

\* Blank lines around lists (MD032): listItemRegex /^(\s*[-*+]|\s*\d+\.)\s/gm,
\* a new list where an item starts more than its own length and ListGap
\* after the start of the item before it, the lists gone through from the
\* last to the first
FixLists(content) ==
    LET MatchLength(index) ==
            LET marker == SkipWhitespace(content, index + 1)
                dot == SkipDigits(content, marker)
                IsSpace(j) == j <= Len(content) /\ content[j] \in Whitespace
            IN  IF marker > Len(content) THEN 0
                ELSE IF content[marker] \in {"-", "*", "+"} /\ IsSpace(marker + 1)
                     THEN marker + 1 - index
                ELSE IF dot > marker /\ dot <= Len(content) /\ content[dot] = "."
                        /\ IsSpace(dot + 1)
                     THEN dot + 1 - index
                ELSE 0
        matches == ExecAll([index \in LineStarts(content) |-> MatchLength(index)], 0)
        IsNewList(k) ==
            k = 1 \/ matches[k].index > matches[k - 1].index + matches[k].length + ListGap
        EndOfLine(lastItem) ==
            lastItem + IndexOfNewline(SubstringFrom(content, lastItem))
        listStarts == {k \in DOMAIN matches : IsNewList(k)}
        NextList(k) ==
            LET later == {j \in listStarts : j > k}
            IN  IF later = {} THEN Len(matches) + 1
                ELSE CHOOSE j \in later : \A l \in later : j <= l
        AddAfter(current, endIndex) ==
            LET afterList == SubstringFrom(current, endIndex + 1)
            IN  IF /\ endIndex < Len(current) - 1
                   /\ ~StartsWith(afterList, <<NL>>)
                   /\ ~TrimIsEmpty(afterList)
                THEN Substring(current, 0, endIndex + 1) \o <<NL>> \o afterList
                ELSE current
        AddBefore(current, startIndex) ==
            IF startIndex > 0 /\ ~EndsWith(Substring(current, 0, startIndex), <<NL, NL>>)
            THEN Substring(current, 0, startIndex) \o <<NL>>
                     \o SubstringFrom(current, startIndex)
            ELSE current
        RECURSIVE Loop(_, _)
        Loop(current, lists) ==
            IF lists = {} THEN current
            ELSE LET k == CHOOSE i \in lists : \A j \in lists : j <= i
                     startIndex == matches[k].index
                     endIndex == EndOfLine(matches[NextList(k) - 1].index)
                 IN  Loop(AddBefore(AddAfter(current, endIndex), startIndex),
                          lists \ {k})
    IN  Loop(content, listStarts)

\* ${currentNumber}
RECURSIVE NumberToString(_)
NumberToString(n) ==
    IF n < 10 THEN <<Digits[n + 1]>>
    ELSE NumberToString(n \div 10) \o <<Digits[(n % 10) + 1]>>

\* Ordered list item prefixes (MD029): orderedListRegex /^(\s*)(\d+)\.(\s+)/gm,
\* the number of each match replaced by a counter that starts again at 1 where
\* the indent differs from that of the match before or the match starts more
\* than ListGap after the end of the match before
FixOrderedLists(content) ==
    LET Number(index) == SkipWhitespace(content, index + 1)
        Dot(index) == SkipDigits(content, Number(index))
        End(index) == SkipWhitespace(content, Dot(index) + 1)
        MatchLength(index) ==
            IF /\ Dot(index) > Number(index)
               /\ Dot(index) <= Len(content) /\ content[Dot(index)] = "."
               /\ End(index) > Dot(index) + 1
            THEN End(index) - 1 - index
            ELSE 0
        matches == ExecAll([index \in LineStarts(content) |-> MatchLength(index)], 0)
        RECURSIVE Loop(_, _, _, _, _)
        Loop(k, fixedContent, currentNumber, lastIndent, lastPos) ==
            IF k > Len(matches) THEN fixedContent \o SubstringFrom(content, lastPos)
            ELSE LET matchIndex == matches[k].index
                     indent == Substring(content, matchIndex, Number(matchIndex) - 1)
                     space == Substring(content, Dot(matchIndex), End(matchIndex) - 1)
                     number == IF indent # lastIndent \/ matchIndex > lastPos + ListGap
                               THEN 1 ELSE currentNumber
                 IN  Loop(k + 1,
                          fixedContent \o Substring(content, lastPos, matchIndex)
                              \o indent \o NumberToString(number) \o <<".">> \o space,
                          number + 1, indent, matchIndex + matches[k].length)
    IN  Loop(1, << >>, 1, << >>, 0)

\* The content after each step of fixMarkdownFile, the steps in their order,
\* from the content read to the content at the end
\* The k-th step of fixMarkdownFile, applied to the content it finds
FixStep(k, content) ==
    CASE k = 1 -> FixCodeFences(content)
      [] k = 2 -> RemoveTrailingSpaces(content)
      [] k = 3 -> RemoveMultipleBlankLines(content)
      [] k = 4 -> FixHeadings(content)
      [] k = 5 -> FixCodeBlockStarts(content)
      [] k = 6 -> FixCodeBlockEnds(content)
      [] k = 7 -> FixLists(content)
      [] k = 8 -> FixOrderedLists(content)
      [] k = 9 -> FixFinalNewline(content)

\* The content before step k and after it and each later step
RECURSIVE FixStepsFrom(_, _)
FixStepsFrom(k, content) ==
    IF k > 9 THEN <<content>>
    ELSE <<content>> \o FixStepsFrom(k + 1, FixStep(k, content))

FixSteps(content) == FixStepsFrom(1, content)

\* The content fixMarkdownFile has at its end
FixedContent(content) ==
    LET steps == FixSteps(content)
    IN  steps[Len(steps)]

\* let fixed: set by each step that found something to change
Fixed(content) ==
    LET steps == FixSteps(content)
    IN  \E k \in 1..(Len(steps) - 1) : steps[k] # steps[k + 1]

\* The matches of localhostRegex
\* /\[([^\]]+)\]\(http:\/\/localhost:3000[^)]*\)/g in content, from position
\* `from` (from 1) on, one after the other: each [start, close, end], the
\* positions of its [, of its ] and of its last character.  The text of the
\* link holds no ], so it ends at the first ] after the [, and the target
\* holds no ), so the match ends at the first ) after localhost:3000.
RECURSIVE LocalhostLinks(_, _)
LocalhostLinks(content, from) ==
    LET First(i, char) ==
            LET found == {j \in i..Len(content) : content[j] = char}
            IN  IF found = {} THEN 0 ELSE CHOOSE j \in found : \A k \in found : j <= k
        Close(i) == IF content[i] = "[" THEN First(i + 1, "]") ELSE 0
        End(i) ==
            IF Close(i) > i + 1 /\ At(content, Close(i), <<"(">> \o LocalhostUrl)
            THEN First(Close(i) + Len(LocalhostUrl) + 2, ")")
            ELSE 0
        starts == {i \in from..Len(content) : End(i) > 0}
    IN  IF starts = {} THEN << >>
        ELSE LET start == CHOOSE i \in starts : \A j \in starts : i <= j
             IN  <<[start |-> start, close |-> Close(start), end |-> End(start)]>>
                     \o LocalhostLinks(content, End(start) + 1)

\* content.replace(localhostRegex, '[$1](#local-development)')
ReplaceLocalhostLinks(content) ==
    LET matches == LocalhostLinks(content, 1)
        RECURSIVE Replaced(_, _)
        Replaced(k, from) ==
            IF k > Len(matches) THEN SubSeq(content, from, Len(content))
            ELSE SubSeq(content, from, matches[k].start - 1)
                     \o Link(SubSeq(content, matches[k].start + 1,
                                    matches[k].close - 1), LocalDevelopment)
                     \o Replaced(k + 1, matches[k].end + 1)
    IN  Replaced(1, 1)

FixInit ==
    /\ \E lines \in SeqUpTo(FileLines, MaxLines), final \in {<< >>, <<NL>>} :
           markdownFile = Join(lines) \o final
    /\ fixReturned = NULL
    /\ linksReturned = NULL
    /\ fixPc = "fix"
    /\ Idle("fix")

\* fixMarkdownFile(filePath): the file is written when a step changed it
FixMarkdownFile ==
    /\ fixPc \in {"fix", "done"}
    /\ markdownFile' = FixedContent(markdownFile)
    /\ fixReturned' = [fixed |-> Fixed(markdownFile)]
    /\ fixPc' = IF fixPc = "fix" THEN "links" ELSE "again"
    /\ UNCHANGED linksReturned
    /\ Frame("fix")

\* fixBrokenLinks(filePath): the file is written when it holds a link to
\* localhost:3000
FixBrokenLinks ==
    /\ fixPc \in {"links", "again"}
    /\ markdownFile' = ReplaceLocalhostLinks(markdownFile)
    /\ linksReturned' = [fixed |-> LocalhostLinks(markdownFile, 1) # << >>]
    /\ fixPc' = IF fixPc = "links" THEN "done" ELSE "end"
    /\ UNCHANGED fixReturned
    /\ Frame("fix")

\* main, lines 244-252: the body of markdownFiles.forEach
FixNext == FixMarkdownFile \/ FixBrokenLinks

SpecFix == FixInit /\ [][FixNext]_vars

\* C20: In the file fixMarkdownFile leaves, every heading that is not at the
\* start of the file has a blank line before it, and every heading followed
\* by text has a blank line after it.
C20_BlankLinesAroundHeadings ==
    fixPc = "links" =>
        \A index \in HeadingIndices(markdownFile) :
            LET heading == LineFrom(markdownFile, index)
                after == SubstringFrom(markdownFile, index + Len(heading))
            IN  /\ index > 0 =>
                       EndsWith(Substring(markdownFile, 0, index), <<NL, NL>>)
                /\ ~TrimIsEmpty(after) => StartsWith(after, <<NL, NL>>)

\* The reports saved for the files gone through so far
SavedReports == {k \in DOMAIN saves : saves[k].saved}

\* C24: No two files validated in one run share a report path: in a run
\* whose writes all succeed the reports in the output directory are as many
\* as the files validated, and each still holds what was written for its own
\* file.
C24_NoSharedReport ==
    unwritable = {} =>
        /\ \A a, b \in DOMAIN saves : a # b => saves[a].path # saves[b].path
        /\ Cardinality(DOMAIN written) = Cardinality(SavedReports)
        /\ \A k \in SavedReports : written[saves[k].path] = saves[k].markdown

\* C25: validatePrompt returns null only for a file that cannot be read:
\* every file read, a file of length 0 too, has a report, handed to
\* saveValidationResults and counted in the total.
C25_NullOnlyWhenUnreadable ==
    \A i \in Visited :
        files[i].content # UNREADABLE =>
            /\ validatePrompt[files[i].content] # NULL
            /\ SavesOf(i) # {}

\* The lines of a text, without their line ends
RECURSIVE LinesOf(_)
LinesOf(text) ==
    LET end == IndexOfNewline(text)
    IN  IF end = -1 THEN <<text>>
        ELSE <<Substring(text, 0, end)>> \o LinesOf(SubstringFrom(text, end + 1))

\* The lines of a text that start with a fence, in their order: the first
\* opens a block, the second closes it, and so on
FenceLines(text) ==
    LET IsFence(line) == StartsWith(line, Fence)
    IN  SelectSeq(LinesOf(text), IsFence)

\* C21: fixMarkdownFile adds the language text to every opening fence that
\* has none, and leaves closing fences and fences with a language as they
\* are: the fence lines of the file written are those of the file read, with
\* text added to the bare opening ones.
C21_OpeningFencesOnly ==
    [][fixPc = "fix" =>
          LET read == FenceLines(markdownFile)
              wrote == FenceLines(markdownFile')
          IN  /\ Len(wrote) = Len(read)
              /\ \A k \in DOMAIN read :
                     wrote[k] = IF k % 2 = 1 /\ read[k] = Fence
                                THEN Fence \o <<"t", "e", "x", "t">>
                                ELSE read[k]]_vars

\* A line that is an ordered list item without indentation: digits, a dot
\* and a space
IsOrderedItem(line) ==
    LET dot == SkipDigits(line, 1)
    IN  dot > 1 /\ dot < Len(line) /\ line[dot] = "." /\ line[dot + 1] = " "

\* The number an ordered list item starts with
ItemNumber(line) ==
    LET Value(char) == (CHOOSE d \in DOMAIN Digits : Digits[d] = char) - 1
        RECURSIVE ValueOf(_)
        ValueOf(digits) ==
            IF digits = << >> THEN 0
            ELSE 10 * ValueOf(SubSeq(digits, 1, Len(digits) - 1))
                     + Value(digits[Len(digits)])
    IN  ValueOf(SubSeq(line, 1, SkipDigits(line, 1) - 1))

\* The k-th smallest number of a set
Nth(set, k) == CHOOSE i \in set : Cardinality({j \in set : j <= i}) = k

\* C22: The items of one ordered list at one indentation are numbered 1, 2,
\* 3, ... whatever the length of their text: in the file written, the first
\* ordered item has number 1, and an item whose line came right after the
\* line of another item in the file read has the number after that item's.
C22_OrderedItemsCounted ==
    [][fixPc = "fix" =>
          LET read == LinesOf(markdownFile)
              items == {i \in DOMAIN read : IsOrderedItem(read[i])}
              wrote == SelectSeq(LinesOf(markdownFile'), IsOrderedItem)
          IN  Len(wrote) = Cardinality(items) =>
                  \A k \in DOMAIN wrote :
                      /\ k = 1 => ItemNumber(wrote[k]) = 1
                      /\ k > 1 /\ Nth(items, k) = Nth(items, k - 1) + 1 =>
                             ItemNumber(wrote[k]) = ItemNumber(wrote[k - 1]) + 1]_vars

\* C23: After fixMarkdownFile has run on a file, the empty file and a file
\* that ends in several line ends included, the content ends with exactly one
\* line end.
C23_SingleFinalNewline ==
    fixPc \in {"links", "done", "again", "end"} =>
        /\ EndsWith(markdownFile, <<NL>>)
        /\ ~EndsWith(markdownFile, <<NL, NL>>)

\* A file of nothing or of line ends only, two or more, has been fixed: it is
\* now one line end
C23_Witness ==
    /\ fixPc = "links"
    /\ fixReturned = [fixed |-> TRUE]
    /\ markdownFile = <<NL>>

\* C28: fixMarkdownFile is idempotent: called on a file it has already
\* fixed, it leaves the content as it is and returns false.
C28_SecondRunChangesNothing ==
    [][fixPc = "done" =>
          /\ markdownFile' = markdownFile
          /\ fixReturned' = [fixed |-> FALSE]]_vars

-----------------------------------------------------------------------------
(* backend-optimizer.js: a source file is scanned with the patterns of     *)
(* OPTIMIZATION_PATTERNS, and the AI part of the report is made from the   *)
(* findings.  The content of a file is a sequence of pieces of code; of    *)
(* each pattern the model keeps the pieces it matches.  Of the patterns of *)
(* the categories database and api, one each is kept.                      *)

\* The number of pieces of code of a file
MaxPieces == 3

\* The pieces of code a file is made of
Pieces ==
    {"x = 1",
     "new Pool()",
     "anthropic.complete(p)",
     "openai.createCompletion(q)",
     "await openai.createCompletion({})",
     "for (const p of ps) { await openai.embed(p) }"}

\* OPTIMIZATION_PATTERNS in the order of Object.keys: the category, the key
\* of the group (optimizationType), the type of the pattern, and the pieces
\* the regular expression of the pattern matches
OPTIMIZATION_PATTERNS ==
    <<[category |-> "database", optimizationType |-> "connectionPooling",
       type |-> "connection-pooling", matching |-> {"new Pool()"}],
      [category |-> "api", optimizationType |-> "batchProcessing",
       type |-> "batch",
       matching |-> {"for (const p of ps) { await openai.embed(p) }"}],
      [category |-> "aiIntegration", optimizationType |-> "streaming",
       type |-> "streaming",
       matching |-> {"openai.createCompletion(q)",
                     "await openai.createCompletion({})"}],
      [category |-> "aiIntegration", optimizationType |-> "batchProcessing",
       type |-> "ai-batch",
       matching |-> {"for (const p of ps) { await openai.embed(p) }"}],
      [category |-> "aiIntegration", optimizationType |-> "caching",
       type |-> "ai-cache",
       matching |-> {"await openai.createCompletion({})"}],
      [category |-> "aiIntegration", optimizationType |-> "loadBalancing",
       type |-> "ai-load-balance",
       matching |-> {"anthropic.complete(p)", "openai.createCompletion(q)",
                     "await openai.createCompletion({})",
                     "for (const p of ps) { await openai.embed(p) }"}]>>

\* [...content.matchAll(pattern.pattern)].length
Occurrences(content, pattern) ==
    Cardinality({i \in DOMAIN content : content[i] \in pattern.matching})

\* scanFileForOptimizations(filePath, patterns): a finding for each pattern
\* that matches, with the key of its group as type and the type of the
\* pattern as pattern
RECURSIVE scanFileForOptimizations(_, _)
scanFileForOptimizations(content, patterns) ==
    IF patterns = << >> THEN << >>
    ELSE LET pattern == Head(patterns)
         IN  (IF Occurrences(content, pattern) > 0
              THEN <<[category |-> pattern.category,
                      type |-> pattern.optimizationType,
                      pattern |-> pattern.type,
                      occurrences |-> Occurrences(content, pattern)]>>
              ELSE << >>)
                 \o scanFileForOptimizations(content, Tail(patterns))

\* findings.some(o => o.type === value)
SomeType(found, value) == \E i \in DOMAIN found : found[i].type = value

\* generateAIOptimizations(findings): null without a finding of the category
\* aiIntegration, else the four flags and the example code of those set
generateAIOptimizations(found) ==
    LET IsAI(f) == f.category = "aiIntegration"
        aiOptimizations == SelectSeq(found, IsAI)
        recommendations ==
            [streaming       |-> SomeType(aiOptimizations, "streaming"),
             batchProcessing |-> SomeType(aiOptimizations, "ai-batch"),
             caching         |-> SomeType(aiOptimizations, "ai-cache"),
             loadBalancing   |-> SomeType(aiOptimizations, "ai-load-balance")]
    IN  IF aiOptimizations = << >> THEN NULL
        ELSE [recommendations |-> recommendations,
              implementation |->
                  (IF recommendations.streaming
                   THEN <<"Streaming API responses">> ELSE << >>)
                  \o (IF recommendations.loadBalancing
                      THEN <<"AI provider load balancing">> ELSE << >>)
                  \o (IF recommendations.caching
                      THEN <<"AI response caching">> ELSE << >>)]

\* generateReport, AI Optimizations Section: the headings put in the report
AISections(aiOptimizations) ==
    IF aiOptimizations = NULL THEN << >>
    ELSE <<"AI Integration Optimization Recommendations">>
             \o (IF aiOptimizations.recommendations.streaming
                 THEN <<"Streaming Responses">> ELSE << >>)
             \o (IF aiOptimizations.recommendations.loadBalancing
                 THEN <<"AI Provider Load Balancing">> ELSE << >>)
             \o (IF aiOptimizations.recommendations.caching
                 THEN <<"AI Response Caching">> ELSE << >>)
             \o <<"Implementation Examples">>

OptimizerInit ==
    /\ sourceFile \in SeqUpTo(Pieces, MaxPieces)
    /\ findings = << >>
    /\ optimizerReport = NULL
    /\ optimizerPc = "scan"
    /\ Idle("optimizer")

\* main: const findings = scanDirectory(directory, OPTIMIZATION_PATTERNS),
\* for a directory of one file
ScanFile ==
    /\ optimizerPc = "scan"
    /\ findings' = scanFileForOptimizations(sourceFile, OPTIMIZATION_PATTERNS)
    /\ optimizerPc' = "report"
    /\ UNCHANGED <<sourceFile, optimizerReport>>
    /\ Frame("optimizer")

\* main: const report = generateReport(findings, trafficLevel)
GenerateReport ==
    /\ optimizerPc = "report"
    /\ optimizerReport' =
           LET aiOptimizations == generateAIOptimizations(findings)
           IN  IF aiOptimizations = NULL THEN [made |-> FALSE]
               ELSE [made |-> TRUE,
                     recommendations |-> aiOptimizations.recommendations,
                     implementation |-> aiOptimizations.implementation,
                     sections |-> AISections(aiOptimizations)]
    /\ optimizerPc' = "done"
    /\ UNCHANGED <<sourceFile, findings>>
    /\ Frame("optimizer")

OptimizerNext == ScanFile \/ GenerateReport

SpecOptimizer == OptimizerInit /\ [][OptimizerNext]_vars

\* The file scanned holds a piece that a pattern of the group of aiIntegration
\* matches
MatchesGroup(group) ==
    \E k \in DOMAIN OPTIMIZATION_PATTERNS :
        /\ OPTIMIZATION_PATTERNS[k].category = "aiIntegration"
        /\ OPTIMIZATION_PATTERNS[k].optimizationType = group
        /\ Occurrences(sourceFile, OPTIMIZATION_PATTERNS[k]) > 0

\* C26: After a scan with OPTIMIZATION_PATTERNS, each flag of the
\* recommendations of generateAIOptimizations is true exactly when the file
\* matches a pattern of the group of aiIntegration of that name, and the
\* report has the section and the example code of caching and of load
\* balancing when their flags are due.
C26_FlagsFollowFindings ==
    optimizerPc = "done" /\ optimizerReport.made =>
        /\ \A group \in {"streaming", "batchProcessing", "caching", "loadBalancing"} :
               optimizerReport.recommendations[group] = MatchesGroup(group)
        /\ MatchesGroup("caching") =>
               /\ \E i \in DOMAIN optimizerReport.sections :
                      optimizerReport.sections[i] = "AI Response Caching"
               /\ \E i \in DOMAIN optimizerReport.implementation :
                      optimizerReport.implementation[i] = "AI response caching"
        /\ MatchesGroup("loadBalancing") =>
               /\ \E i \in DOMAIN optimizerReport.sections :
                      optimizerReport.sections[i] = "AI Provider Load Balancing"
               /\ \E i \in DOMAIN optimizerReport.implementation :
                      optimizerReport.implementation[i] = "AI provider load balancing"

-----------------------------------------------------------------------------
(* generateFineTuningDataset: the conversation examples of the prompt      *)
(* files are collected, converted and written as JSONL.  A prompt file is  *)
(* the sequence of its conversation blocks, a block the sequence of its    *)
(* lines, and a line `role: message` the record [role, message] (a line    *)
(* without text after the colon has the message "").                       *)

\* The number of prompt files given
MaxFiles == 2

\* A line of a conversation block
Turn(role, message) == [role |-> role, message |-> message]

\* The conversation blocks of the prompt files: a user and an assistant turn,
\* a turn of a role no format knows, a turn without message, a block without
\* lines
ConversationBlocks ==
    {<<Turn("user", "hi"), Turn("Assistant", "hello")>>,
     <<Turn("human", "hi")>>,
     <<Turn("user", "")>>,
     << >>}

\* The prompt files: one that cannot be read, one without conversation
\* block, one of each block, and one of two blocks
PromptFiles ==
    {[readable |-> FALSE, blocks |-> << >>]}
        \cup {[readable |-> TRUE, blocks |-> blocks] :
                 blocks \in {<< >>} \cup {<<block>> : block \in ConversationBlocks}
                     \cup {<<<<Turn("human", "hi")>>,
                             <<Turn("user", "hi"), Turn("Assistant", "hello")>>>>}}

\* The values of the format argument
Formats == {"openai", "anthropic", "local", "xml"}

\* role.trim().toLowerCase()
ToLowerCase(role) == IF role = "Assistant" THEN "assistant" ELSE role

\* extractConversationExamples(content): of each block the turns that have a
\* role and a message, the blocks left without turn dropped
extractConversationExamples(content) ==
    LET HasBoth(turn) == turn.role # "" /\ turn.message # ""
        Lower(k) ==
            LET turns == SelectSeq(content[k], HasBoth)
            IN  [i \in DOMAIN turns |->
                    [role |-> ToLowerCase(turns[i].role),
                     content |-> turns[i].message]]
        RECURSIVE Blocks(_)
        Blocks(k) ==
            IF k > Len(content) THEN << >>
            ELSE (IF Lower(k) # << >> THEN <<Lower(k)>> ELSE << >>) \o Blocks(k + 1)
    IN  Blocks(1)

\* CONFIG.promptFormats[format]: the roles it has, undefined ({} here) for
\* any other format
PromptFormatRoles(fmt) ==
    IF fmt \in {"openai", "anthropic", "local"}
    THEN {"system", "user", "assistant"}
    ELSE {}

\* convertToJSONL(conversations, format): a line for each conversation that
\* has a message of a role of the format, the lines joined by line ends; the
\* messages are pushed for the formats openai, anthropic and local only
convertToJSONL(conversations, fmt) ==
    LET Known(message) ==
            /\ fmt \in {"openai", "anthropic", "local"}
            /\ message.role \in PromptFormatRoles(fmt)
        Formatted(k) ==
            LET kept == SelectSeq(conversations[k], Known)
            IN  [i \in DOMAIN kept |->
                    IF fmt = "local"
                    THEN [text |-> <<kept[i].role, kept[i].content>>]
                    ELSE [text |-> <<kept[i].role, ":", kept[i].content>>]]
        RECURSIVE Lines(_)
        Lines(k) ==
            IF k > Len(conversations) THEN << >>
            ELSE (IF Formatted(k) # << >>
                  THEN <<[messages |-> Formatted(k)]>> ELSE << >>) \o Lines(k + 1)
    IN  Lines(1)

\* allConversations: the conversations of the files that can be read, in
\* the order of the files
RECURSIVE AllConversations(_)
AllConversations(given) ==
    IF given = << >> THEN << >>
    ELSE (IF ~Head(given).readable THEN << >>
          ELSE extractConversationExamples(Head(given).blocks))
             \o AllConversations(Tail(given))

DatasetInit ==
    /\ promptFiles \in SeqUpTo(PromptFiles, MaxFiles)
    /\ format \in Formats
    /\ outputWritable \in BOOLEAN
    /\ outputFile = [exists |-> FALSE, lines |-> << >>]
    /\ datasetReturned = NULL
    /\ datasetPc = "generate"
    /\ Idle("dataset")

\* generateFineTuningDataset(promptFiles, outputFile, format)
GenerateFineTuningDataset ==
    /\ datasetPc = "generate"
    /\ LET allConversations == AllConversations(promptFiles)
       IN  IF allConversations = << >>
           THEN /\ datasetReturned' = [returned |-> FALSE]
                /\ UNCHANGED outputFile
           ELSE IF outputWritable
           THEN /\ outputFile' =
                       [exists |-> TRUE,
                        lines |-> convertToJSONL(allConversations, format)]
                /\ datasetReturned' = [returned |-> TRUE]
           ELSE /\ datasetReturned' = [returned |-> FALSE]
                /\ UNCHANGED outputFile
    /\ datasetPc' = "done"
    /\ UNCHANGED <<promptFiles, format, outputWritable>>
    /\ Frame("dataset")

DatasetNext == GenerateFineTuningDataset

SpecDataset == DatasetInit /\ [][DatasetNext]_vars

\* C27: generateFineTuningDataset returns true only if it has written an
\* output file with at least one JSONL example line, whatever the format
\* and the prompt files; when it returns false it has written no file.
C27_TrueOnlyWithExamples ==
    datasetPc = "done" =>
        /\ datasetReturned = [returned |-> TRUE] =>
               outputFile.exists /\ Len(outputFile.lines) >= 1
        /\ datasetReturned = [returned |-> FALSE] => ~outputFile.exists

====
